---- MODULE Spec2Model ----
(***************************************************************************)
(* vizmatic: timeline segment resolver, playback mapper, preview frame     *)
(* latch and render subprocess lifecycle.                                  *)
(*                                                                         *)
(* Times are integers counting ticks of 0.05 s, so the 0.05 s minimum      *)
(* length of the source is MinLen = 1 tick.  JavaScript numbers that may   *)
(* be absent or non-finite are tagged records (see Num, Undefined, NaN).   *)
(***************************************************************************)
EXTENDS Integers, Sequences, FiniteSets, TLC

(***************************************************************************)
(* Bounds of the model.                                                    *)
(***************************************************************************)
MaxClips == 2
MaxPlayhead == 4
MaxRequests == 4
MaxRenders == 2
MaxEdits == 2
MaxLoads == 2
MaxLayers == 1
MaxFileClips == 2

(***************************************************************************)
(* Program constants.                                                      *)
(***************************************************************************)
MinLen == 1

Paths == {"a", "b"}

(***************************************************************************)
(* JavaScript numbers.                                                     *)
(***************************************************************************)
Num(n) == [t |-> "num", v |-> n]
Undefined == [t |-> "undef", v |-> 0]
NaN == [t |-> "nan", v |-> 0]
PosInf == [t |-> "inf", v |-> 0]
Null == [t |-> "null", v |-> 0]

IsFinite(x) == x.t = "num"
Coalesce(x, d) == IF x.t = "undef" THEN d ELSE x
ToNumber(x) == IF x.t = "undef" THEN NaN ELSE x

MathMax(a, b) ==
  LET x == ToNumber(a)
      y == ToNumber(b)
  IN  IF x.t = "nan" \/ y.t = "nan" THEN NaN
      ELSE IF x.t = "inf" \/ y.t = "inf" THEN PosInf
      ELSE IF x.v >= y.v THEN x ELSE y

MathMin(a, b) ==
  LET x == ToNumber(a)
      y == ToNumber(b)
  IN  IF x.t = "nan" \/ y.t = "nan" THEN NaN
      ELSE IF x.t = "inf" THEN y
      ELSE IF y.t = "inf" THEN x
      ELSE IF x.v <= y.v THEN x ELSE y

Plus(a, b) ==
  LET x == ToNumber(a)
      y == ToNumber(b)
  IN  IF x.t = "nan" \/ y.t = "nan" THEN NaN
      ELSE IF x.t = "inf" \/ y.t = "inf" THEN PosInf
      ELSE Num(x.v + y.v)

Minus(a, b) ==
  LET x == ToNumber(a)
      y == ToNumber(b)
  IN  IF x.t = "nan" \/ y.t = "nan" \/ y.t = "inf" THEN NaN
      ELSE IF x.t = "inf" THEN PosInf
      ELSE Num(x.v - y.v)

\* a >= b and a <= b of JavaScript: false as soon as one side is NaN
GreaterEq(a, b) ==
  LET x == ToNumber(a)
      y == ToNumber(b)
  IN  /\ x.t # "nan" /\ y.t # "nan"
      /\ \/ x.t = "inf"
         \/ x.t = "num" /\ y.t = "num" /\ x.v >= y.v

GreaterThan(a, b) ==
  LET x == ToNumber(a)
      y == ToNumber(b)
  IN  /\ x.t # "nan" /\ y.t # "nan"
      /\ \/ x.t = "inf" /\ y.t = "num"
         \/ x.t = "num" /\ y.t = "num" /\ x.v > y.v

LessEq(a, b) ==
  LET x == ToNumber(a)
      y == ToNumber(b)
  IN  /\ x.t # "nan" /\ y.t # "nan"
      /\ \/ y.t = "inf"
         \/ x.t = "num" /\ y.t = "num" /\ x.v <= y.v

\* a % b for a >= 0 and b > 0, NaN otherwise
Remainder(a, b) ==
  LET x == ToNumber(a)
      y == ToNumber(b)
  IN  IF x.t = "num" /\ y.t = "num" /\ x.v >= 0 /\ y.v > 0 THEN Num(x.v % y.v)
      ELSE IF x.t = "num" /\ y.t = "inf" THEN x
      ELSE NaN

(***************************************************************************)
(* State.                                                                  *)
(***************************************************************************)
VARIABLES
  videoPaths,      \* session.videoPaths: the ordered clip list
  videoIds,        \* session.videoIds: the stable clip ids, aligned with videoPaths
  clipEdits,       \* session.clipEdits: clip id -> edit (partial map)
  audioDuration,   \* duration of the loaded audio, 0 when there is none
  videoDurations,  \* probed source durations by path, 0 when unknown
  playhead,        \* session.playhead
  clipSegments,    \* the memoised resolver output
  active,          \* what resolveActiveClip returned for the last preview frame
  trimDrag,        \* the trim drag in progress on the storyboard, NoDrag when none
  editsMade        \* calls of updateClipEdit so far

VARIABLES
  canvasMounted,   \* previewCanvasRef.current is set (the preview section is expanded)
  previewBusy,     \* previewBusyRef.current
  previewQueued,   \* previewQueuedRef.current
  seeking,         \* frame renders suspended at the await of the video seek
  rafPending,      \* pending animation-frame callbacks that will call renderPreviewFrame
  requests,        \* render requests issued so far by effects and event handlers
  framesStarted,   \* frame renders that got past the entry latch so far
  deferred         \* calls deferred since the last frame render got past the latch

timelineVars == <<videoPaths, videoIds, clipEdits, audioDuration, videoDurations,
                  playhead, clipSegments, active, trimDrag, editsMade>>

previewVars == <<canvasMounted, previewBusy, previewQueued, seeking, rafPending,
                 requests, framesStarted, deferred>>

VARIABLES
  currentRenderChild,  \* the render handle of the main process: a child number, 0 for null
  procs,               \* the render subprocesses spawned so far, by child number
  starting,            \* render:start calls past the busy check, still preparing
  isRendering          \* the isRendering flag of the window

renderVars == <<currentRenderChild, procs, starting, isRendering>>

VARIABLES
  audioPath,       \* session.audioPath, "" when there is no audio
  layers,          \* session.layers
  loads,           \* project files opened so far
  opened,          \* the project file opened last, NoFile when none
  disk             \* the project file written by the last save, NoFile when none

projectVars == <<audioPath, layers, loads, opened, disk>>

VARIABLES
  output,          \* what the render subprocess writes to its stdout, in bytes
  outputErr,       \* what it writes to its stderr
  pendingOut,      \* the bytes of stdout not yet delivered by a 'data' event
  pendingErr,      \* the bytes of stderr not yet delivered by a 'data' event
  stdoutBuf,       \* stdoutBuf of render:start
  stderrBuf,       \* stderrBuf of render:start
  totalMs,         \* totalMs of render:start
  logs,            \* the logs state of the window
  progress,        \* the render:progress messages the window received so far
  renderElapsedMs, \* the renderElapsedMs state of the window
  renderTotalMs    \* the renderTotalMs state of the window

outputVars == <<output, outputErr, pendingOut, pendingErr, stdoutBuf, stderrBuf, totalMs, logs,
                progress, renderElapsedMs, renderTotalMs>>

VARIABLES
  overviewPeaks,   \* the overviewPeaks state: what the waveform shows
  decodes          \* the generatePeaks calls started so far, one per effect run

waveVars == <<overviewPeaks, decodes>>

VARIABLES
  idsMade          \* calls of makeId for clips added or duplicated so far

clipOpVars == <<idsMade>>

VARIABLES
  library,         \* the paths of the media library items (the library state)
  missingPaths,    \* the missingPaths state
  checks           \* the target sets of the checkMissing calls still awaiting fileExists

missingVars == <<library, missingPaths, checks>>

VARIABLES
  projectDirty,    \* projectDirty of the main process
  windowOpen,      \* the main window has not been destroyed
  closeStage,      \* where the window's async 'close' handler stands
  defaultPrevented,\* e.defaultPrevented of the 'close' event being handled
  renderAnswer,    \* the answer to the Render In Progress prompt, "none" before it
  dirtyAnswer,     \* the answer to the Unsaved Changes prompt, "none" before it
  savedListener,   \* a 'project:saved' listener of the close handler is registered
  saveJobs         \* the handleSaveProject calls so far: snapshot and position

closeRestVars == <<windowOpen, closeStage, defaultPrevented, renderAnswer, dirtyAnswer,
                   savedListener, saveJobs>>
closeVars == <<projectDirty, closeRestVars>>

VARIABLES
  particleLayer,   \* the particles layer drawn by renderPreviewFrame
  audioPaused,     \* audioEl.paused (TRUE also when there is no audio element)
  particleState,   \* particleStateRef.current.get(layer.id), NoParticleState when absent
  ticks            \* preview frames that drew the particles layer so far

particleVars == <<particleLayer, audioPaused, particleState, ticks>>

hostVars == <<outputVars, waveVars, clipOpVars, missingVars, closeVars, particleVars>>
hostRestVars == <<outputVars, waveVars, clipOpVars, missingVars, closeRestVars, particleVars>>
nonOutputVars == <<waveVars, clipOpVars, missingVars, closeVars, particleVars>>
nonWaveVars == <<outputVars, clipOpVars, missingVars, closeVars, particleVars>>
nonMissingVars == <<outputVars, waveVars, clipOpVars, closeVars, particleVars>>
nonCloseVars == <<outputVars, waveVars, clipOpVars, missingVars, particleVars>>
nonParticleVars == <<outputVars, waveVars, clipOpVars, missingVars, closeVars>>
coreVars == <<timelineVars, previewVars, renderVars, projectVars>>

nonTimelineVars == <<previewVars, renderVars, projectVars, hostVars>>
nonPreviewVars == <<timelineVars, renderVars, projectVars, hostVars>>
nonRenderVars == <<timelineVars, previewVars, projectVars, hostVars>>

vars == <<coreVars, hostVars>>

(***************************************************************************)
(* Clip edits.                                                             *)
(***************************************************************************)
NoEdit ==
  [trimStart |-> Undefined, trimEnd |-> Undefined, duration |-> Undefined,
   timelineStart |-> Undefined, fillMethod |-> "undef", hue |-> Undefined]

EditOf(edits, id) == IF id \in DOMAIN edits THEN edits[id] ELSE NoEdit

\* ids[index] || `${index}:${path}`: a synthetic id when the id list is short
IdAt(ids, index) == IF index \in DOMAIN ids THEN ids[index] ELSE 0 - index

(***************************************************************************)
(* Timeline segment resolver (clipSegments).                               *)
(***************************************************************************)
AudioLimit(audio) == IF audio > 0 THEN Num(audio) ELSE Undefined

\* ResolveClip without the clamp of the duration to the remaining audio
ResolveClip_NoAudioClamp(paths, ids, edits, audio, durations, index, cursor) ==
  LET path == paths[index]
      id == IdAt(ids, index)
      edit == EditOf(edits, id)
      audioLimit == AudioLimit(audio)
      fillMethod == IF edit.fillMethod = "undef" THEN "loop" ELSE edit.fillMethod
      sourceDuration == Num(durations[path])
      trimStart == MathMax(Num(0), Coalesce(edit.trimStart, Num(0)))
      trimEnd == IF IsFinite(edit.trimEnd) THEN MathMax(trimStart, edit.trimEnd)
                 ELSE IF GreaterThan(sourceDuration, Num(0)) THEN sourceDuration ELSE trimStart
      trimmedLength == MathMax(Num(MinLen), Minus(trimEnd, trimStart))
      duration == IF IsFinite(edit.duration) THEN MathMax(Num(MinLen), edit.duration)
                  ELSE trimmedLength
      startOverride == IF IsFinite(edit.timelineStart)
                       THEN MathMax(Num(0), edit.timelineStart) ELSE Undefined
      start0 == IF startOverride = Undefined THEN cursor
                ELSE MathMax(cursor, startOverride)
      pastEnd == audioLimit # Undefined /\ GreaterEq(start0, audioLimit)
      start == IF pastEnd THEN audioLimit ELSE start0
      clampedDuration == IF pastEnd THEN Num(0) ELSE duration
      end == Plus(start, clampedDuration)
  IN  [id |-> id, path |-> path, index |-> index, start |-> start, end |-> end,
       duration |-> clampedDuration, trimStart |-> trimStart, trimEnd |-> trimEnd,
       sourceDuration |-> sourceDuration, fillMethod |-> fillMethod,
       hue |-> edit.hue, trimmedLength |-> trimmedLength]

\* ResolveClip that places an overridden clip at its override, ignoring the cursor
ResolveClip_OverrideWins(paths, ids, edits, audio, durations, index, cursor) ==
  LET path == paths[index]
      id == IdAt(ids, index)
      edit == EditOf(edits, id)
      audioLimit == AudioLimit(audio)
      fillMethod == IF edit.fillMethod = "undef" THEN "loop" ELSE edit.fillMethod
      sourceDuration == Num(durations[path])
      trimStart == MathMax(Num(0), Coalesce(edit.trimStart, Num(0)))
      trimEnd == IF IsFinite(edit.trimEnd) THEN MathMax(trimStart, edit.trimEnd)
                 ELSE IF GreaterThan(sourceDuration, Num(0)) THEN sourceDuration ELSE trimStart
      trimmedLength == MathMax(Num(MinLen), Minus(trimEnd, trimStart))
      duration == IF IsFinite(edit.duration) THEN MathMax(Num(MinLen), edit.duration)
                  ELSE trimmedLength
      startOverride == IF IsFinite(edit.timelineStart)
                       THEN MathMax(Num(0), edit.timelineStart) ELSE Undefined
      start0 == IF startOverride = Undefined THEN cursor ELSE startOverride
      pastEnd == audioLimit # Undefined /\ GreaterEq(start0, audioLimit)
      start == IF pastEnd THEN audioLimit ELSE start0
      clampedDuration ==
        IF audioLimit = Undefined THEN duration
        ELSE IF pastEnd THEN Num(0)
        ELSE MathMin(duration, MathMax(Num(0), Minus(audioLimit, start0)))
      end == Plus(start, clampedDuration)
  IN  [id |-> id, path |-> path, index |-> index, start |-> start, end |-> end,
       duration |-> clampedDuration, trimStart |-> trimStart, trimEnd |-> trimEnd,
       sourceDuration |-> sourceDuration, fillMethod |-> fillMethod,
       hue |-> edit.hue, trimmedLength |-> trimmedLength]

ResolveClip(paths, ids, edits, audio, durations, index, cursor) ==
  LET path == paths[index]
      id == IdAt(ids, index)
      edit == EditOf(edits, id)
      audioLimit == AudioLimit(audio)
      fillMethod == IF edit.fillMethod = "undef" THEN "loop" ELSE edit.fillMethod
      sourceDuration == Num(durations[path])
      trimStart == MathMax(Num(0), Coalesce(edit.trimStart, Num(0)))
      trimEnd == IF IsFinite(edit.trimEnd) THEN MathMax(trimStart, edit.trimEnd)
                 ELSE IF GreaterThan(sourceDuration, Num(0)) THEN sourceDuration ELSE trimStart
      trimmedLength == MathMax(Num(MinLen), Minus(trimEnd, trimStart))
      duration == IF IsFinite(edit.duration) THEN MathMax(Num(MinLen), edit.duration)
                  ELSE trimmedLength
      startOverride == IF IsFinite(edit.timelineStart)
                       THEN MathMax(Num(0), edit.timelineStart) ELSE Undefined
      start0 == IF startOverride = Undefined THEN cursor
                ELSE MathMax(cursor, startOverride)
      pastEnd == audioLimit # Undefined /\ GreaterEq(start0, audioLimit)
      start == IF pastEnd THEN audioLimit ELSE start0
      clampedDuration ==
        IF audioLimit = Undefined THEN duration
        ELSE IF pastEnd THEN Num(0)
        ELSE MathMin(duration, MathMax(Num(0), Minus(audioLimit, start0)))
      end == Plus(start, clampedDuration)
  IN  [id |-> id, path |-> path, index |-> index, start |-> start, end |-> end,
       duration |-> clampedDuration, trimStart |-> trimStart, trimEnd |-> trimEnd,
       sourceDuration |-> sourceDuration, fillMethod |-> fillMethod,
       hue |-> edit.hue, trimmedLength |-> trimmedLength]

\* NextCursor that advances by the start of the segment, not by its end
NextCursor_FromStart(audio, cursor, seg) ==
  IF AudioLimit(audio) # Undefined THEN MathMin(AudioLimit(audio), seg.start)
  ELSE MathMax(cursor, seg.start)

NextCursor(audio, cursor, seg) ==
  IF AudioLimit(audio) # Undefined THEN MathMin(AudioLimit(audio), seg.end)
  ELSE MathMax(cursor, seg.end)

RECURSIVE ResolveFrom(_, _, _, _, _, _, _)
ResolveFrom(paths, ids, edits, audio, durations, index, cursor) ==
  IF index > Len(paths) THEN <<>>
  ELSE LET seg == ResolveClip(paths, ids, edits, audio, durations, index, cursor)
       IN  <<seg>> \o ResolveFrom(paths, ids, edits, audio, durations, index + 1,
                                  NextCursor(audio, cursor, seg))

ClipSegments(paths, ids, edits, audio, durations) ==
  ResolveFrom(paths, ids, edits, audio, durations, 1, Num(0))

RECURSIVE MaxEnd(_, _)
MaxEnd(segs, i) ==
  IF i > Len(segs) THEN Num(0) ELSE MathMax(MaxEnd(segs, i + 1), segs[i].end)

TimelineDuration(audio, segs) == IF audio > 0 THEN Num(audio) ELSE MaxEnd(segs, 1)

(***************************************************************************)
(* Playback mapper (resolveActiveClip).                                    *)
(***************************************************************************)
NoActive ==
  [found |-> FALSE, index |-> 0, path |-> "", local |-> Undefined, localDen |-> 1,
   duration |-> Undefined]

\* ScanSegments with the half-open interval [start, end)
RECURSIVE ScanSegments_HalfOpen(_, _, _)
ScanSegments_HalfOpen(segs, t, i) ==
  IF i > Len(segs) THEN 0
  ELSE IF GreaterEq(t, segs[i].start) /\ GreaterThan(segs[i].end, t) THEN i
  ELSE ScanSegments_HalfOpen(segs, t, i + 1)

\* the for-loop over clipSegments: the first segment whose [start, end] holds t
RECURSIVE ScanSegments(_, _, _)
ScanSegments(segs, t, i) ==
  IF i > Len(segs) THEN 0
  ELSE IF GreaterEq(t, segs[i].start) /\ LessEq(t, segs[i].end) THEN i
  ELSE ScanSegments(segs, t, i + 1)

\* LocalTime that plays a stretch clip at its own speed, like loop
LocalTime_StretchLoops(seg, t) ==
  LET rel == MathMax(Num(0), Minus(t, seg.start))
      loopLen == MathMax(Num(MinLen),
                         IF seg.trimmedLength.t = "nan" \/ seg.trimmedLength = Num(0)
                         THEN seg.sourceDuration ELSE seg.trimmedLength)
      period == Plus(loopLen, loopLen)
      phase == Remainder(rel, period)
  IN  IF seg.fillMethod = "pingpong" /\ GreaterThan(loopLen, Num(0))
      THEN [local |-> Plus(seg.trimStart,
                           IF LessEq(phase, loopLen) THEN phase ELSE Minus(period, phase)),
            localDen |-> 1]
      ELSE [local |-> Plus(seg.trimStart, Remainder(rel, loopLen)), localDen |-> 1]

\* LocalTime whose pingpong wraps at the trim end like loop instead of turning back
LocalTime_PingpongWraps(seg, t) ==
  LET rel == MathMax(Num(0), Minus(t, seg.start))
      loopLen == MathMax(Num(MinLen),
                         IF seg.trimmedLength.t = "nan" \/ seg.trimmedLength = Num(0)
                         THEN seg.sourceDuration ELSE seg.trimmedLength)
      period == Plus(loopLen, loopLen)
      phase == Remainder(rel, period)
  IN  IF seg.fillMethod = "stretch" /\ GreaterThan(seg.duration, Num(0))
         /\ GreaterThan(loopLen, Num(0))
      THEN IF IsFinite(rel) /\ IsFinite(loopLen) /\ IsFinite(seg.trimStart)
              /\ IsFinite(seg.duration)
           THEN [local |-> Num(seg.trimStart.v * seg.duration.v
                               + loopLen.v * MathMin(rel, seg.duration).v),
                 localDen |-> seg.duration.v]
           ELSE [local |-> NaN, localDen |-> 1]
      ELSE IF seg.fillMethod = "pingpong" /\ GreaterThan(loopLen, Num(0))
      THEN [local |-> Plus(seg.trimStart, Remainder(phase, loopLen)), localDen |-> 1]
      ELSE [local |-> Plus(seg.trimStart, Remainder(rel, loopLen)), localDen |-> 1]

\* LocalTime whose loop and pingpong run on past the trim end without wrapping
LocalTime_NoWrap(seg, t) ==
  LET rel == MathMax(Num(0), Minus(t, seg.start))
      loopLen == MathMax(Num(MinLen),
                         IF seg.trimmedLength.t = "nan" \/ seg.trimmedLength = Num(0)
                         THEN seg.sourceDuration ELSE seg.trimmedLength)
  IN  IF seg.fillMethod = "stretch" /\ GreaterThan(seg.duration, Num(0))
         /\ GreaterThan(loopLen, Num(0))
      THEN IF IsFinite(rel) /\ IsFinite(loopLen) /\ IsFinite(seg.trimStart)
              /\ IsFinite(seg.duration)
           THEN [local |-> Num(seg.trimStart.v * seg.duration.v
                               + loopLen.v * MathMin(rel, seg.duration).v),
                 localDen |-> seg.duration.v]
           ELSE [local |-> NaN, localDen |-> 1]
      ELSE [local |-> Plus(seg.trimStart, rel), localDen |-> 1]

\* local source time as the fraction local / localDen (localDen = 1 but for stretch)
LocalTime(seg, t) ==
  LET rel == MathMax(Num(0), Minus(t, seg.start))
      loopLen == MathMax(Num(MinLen),
                         IF seg.trimmedLength.t = "nan" \/ seg.trimmedLength = Num(0)
                         THEN seg.sourceDuration ELSE seg.trimmedLength)
      period == Plus(loopLen, loopLen)
      phase == Remainder(rel, period)
  IN  IF seg.fillMethod = "stretch" /\ GreaterThan(seg.duration, Num(0))
         /\ GreaterThan(loopLen, Num(0))
      THEN IF IsFinite(rel) /\ IsFinite(loopLen) /\ IsFinite(seg.trimStart)
              /\ IsFinite(seg.duration)
           THEN [local |-> Num(seg.trimStart.v * seg.duration.v
                               + loopLen.v * MathMin(rel, seg.duration).v),
                 localDen |-> seg.duration.v]
           ELSE [local |-> NaN, localDen |-> 1]
      ELSE IF seg.fillMethod = "pingpong" /\ GreaterThan(loopLen, Num(0))
      THEN [local |-> Plus(seg.trimStart,
                           IF LessEq(phase, loopLen) THEN phase ELSE Minus(period, phase)),
            localDen |-> 1]
      ELSE [local |-> Plus(seg.trimStart, Remainder(rel, loopLen)), localDen |-> 1]

ResolveActiveClip(segs, t) ==
  LET i == ScanSegments(segs, t, 1)
  IN  IF i = 0 THEN NoActive
      ELSE [found |-> TRUE, index |-> i, path |-> segs[i].path,
            local |-> LocalTime(segs[i], t).local,
            localDen |-> LocalTime(segs[i], t).localDen,
            duration |-> segs[i].duration]


\* Storyboard: const [trimDrag, setTrimDrag] = useState(null)
NoDrag == [id |-> 0]

NoFile == [kind |-> "none"]

\* no project file has been opened or saved yet
\* the targets of checkMissing: the audio, the clips and the library items
Targets(audio, paths, lib) ==
  (IF audio # "" THEN {audio} ELSE {}) \cup {paths[i] : i \in DOMAIN paths} \cup lib

\* the effect on session.audioPath, session.videoPaths and library: a new
\* checkMissing call is in flight beside those that have not settled yet
StartCheck(audio, paths, lib) == checks' = checks \cup {Targets(audio, paths, lib)}

InitProject(audio) ==
  /\ audioPath = audio
  /\ layers = <<>>
  /\ loads = 0
  /\ opened = NoFile
  /\ disk = NoFile

(***************************************************************************)
(* The state after construction.                                           *)
(***************************************************************************)
InitPreview ==
  /\ canvasMounted = TRUE
  /\ previewBusy = FALSE
  /\ previewQueued = FALSE
  /\ seeking = 0
  /\ rafPending = 0
  /\ requests = 0
  /\ framesStarted = 0
  /\ deferred = 0

InitRender ==
  /\ currentRenderChild = 0
  /\ procs = <<>>
  /\ starting = 0
  /\ isRendering = FALSE

\* a render subprocess that writes what: nothing has been read yet
InitOutput(what, whatErr) ==
  /\ output = what
  /\ outputErr = whatErr
  /\ pendingOut = what
  /\ pendingErr = whatErr
  /\ stdoutBuf = <<>>
  /\ stderrBuf = <<>>
  /\ totalMs = 0
  /\ logs = <<>>
  /\ progress = <<>>
  /\ renderElapsedMs = 0
  /\ renderTotalMs = 0

\* useState<number[]>([]) and no effect run yet
NoPeaks == [kind |-> "empty", path |-> "", by |-> 0]

InitWave ==
  /\ overviewPeaks = NoPeaks
  /\ decodes = <<>>

\* the library not loaded yet, nothing missing, no check in flight
InitMissing ==
  /\ library = {}
  /\ missingPaths = {}
  /\ checks = {}

\* nothing to save, the window open, no close request and no save so far
InitClose ==
  /\ projectDirty = FALSE
  /\ windowOpen = TRUE
  /\ closeStage = "idle"
  /\ defaultPrevented = FALSE
  /\ renderAnswer = "none"
  /\ dirtyAnswer = "none"
  /\ savedListener = FALSE
  /\ saveJobs = <<>>

\* no entry for the layer in particleStateRef
NoParticleState == [kind |-> "none"]

\* a particles layer as makeLayer makes it (speed 60, direction 0, audio
\* responsive) with the smallest particle count; w and h are the layer's width
\* and height times the stage scale, in pixels
DefaultParticles ==
  [w |-> 20, h |-> 20, particleCount |-> 10, speed |-> 60, direction |-> 0,
   audioResponsive |-> TRUE]

InitParticles(layer) ==
  /\ particleLayer = layer
  /\ audioPaused = TRUE
  /\ particleState = NoParticleState
  /\ ticks = 0

InitHostRest ==
  /\ InitOutput(<<>>, <<>>)
  /\ InitWave
  /\ idsMade = 0
  /\ InitMissing
  /\ InitClose

InitHost ==
  /\ InitHostRest
  /\ InitParticles(DefaultParticles)

InitSession ==
  /\ videoPaths = <<>>
  /\ videoIds = <<>>
  /\ clipEdits = <<>>
  /\ audioDuration = 0
  /\ videoDurations = [p \in Paths |-> 0]
  /\ playhead = 0
  /\ clipSegments = <<>>
  /\ active = NoActive
  /\ trimDrag = NoDrag
  /\ editsMade = 0
  /\ InitProject("")

(***************************************************************************)
(* Sessions as handleLoadProject leaves them: one fresh id per clip, an    *)
(* edit for each clip descriptor that carries a finite field.              *)
(***************************************************************************)
DurationInputs == {Undefined, Num(0), Num(3)}
TimelineStartInputs == {Undefined, Num(0 - 1), Num(3)}
AudioInputs == {0, 2, 4}

LoadedEdits ==
  {[NoEdit EXCEPT !.duration = d, !.timelineStart = s] :
      d \in DurationInputs, s \in TimelineStartInputs}
  \cup {[NoEdit EXCEPT !.trimStart = Num(1), !.trimEnd = Num(3)]}

\* duration of the media file behind a path, as the probe reports it
FileDuration(path) == IF path = "a" THEN 4 ELSE 2

ClipLists == UNION {[1..n -> Paths] : n \in 0..MaxClips}

StoredEdits(f) == [id \in {i \in DOMAIN f : f[i] # NoEdit} |-> f[id]]

InitTimeline ==
  /\ InitPreview
  /\ InitRender
  /\ InitHost
  /\ InitProject("song")
  /\ videoPaths \in ClipLists
  /\ videoIds = [i \in 1..Len(videoPaths) |-> i]
  /\ \E f \in [1..Len(videoPaths) -> LoadedEdits] : clipEdits = StoredEdits(f)
  /\ audioDuration = 0
  /\ videoDurations = [p \in Paths |-> 0]
  /\ playhead = 0
  /\ clipSegments = ClipSegments(videoPaths, videoIds, clipEdits, 0, videoDurations)
  /\ active = ResolveActiveClip(clipSegments, Num(0))
  /\ trimDrag = NoDrag
  /\ editsMade = 0

\* onDurationChange / audio removed: the memo and the preview frame follow
SetAudioDuration(d) ==
  /\ audioDuration' = d
  /\ clipSegments' = ClipSegments(videoPaths, videoIds, clipEdits, d, videoDurations)
  /\ active' = ResolveActiveClip(clipSegments', Num(playhead))
  /\ UNCHANGED <<videoPaths, videoIds, clipEdits, videoDurations, playhead, trimDrag,
                 editsMade>>
  /\ UNCHANGED nonTimelineVars

\* the duration probe of the clip list settles: ok are the paths it could read
ProbeSettled(ok) ==
  /\ Len(videoPaths) > 0
  /\ ok \subseteq {videoPaths[i] : i \in DOMAIN videoPaths}
  /\ videoDurations' = [p \in Paths |-> IF p \in ok THEN FileDuration(p) ELSE 0]
  /\ clipSegments' = ClipSegments(videoPaths, videoIds, clipEdits, audioDuration,
                                  videoDurations')
  /\ active' = ResolveActiveClip(clipSegments', Num(playhead))
  /\ UNCHANGED <<videoPaths, videoIds, clipEdits, audioDuration, playhead, trimDrag,
                 editsMade>>
  /\ UNCHANGED nonTimelineVars

\* onSeek / onPlayheadChange, then the preview frame of the new playhead
Seek(t) ==
  /\ playhead' = t
  /\ active' = ResolveActiveClip(clipSegments, Num(t))
  /\ UNCHANGED <<videoPaths, videoIds, clipEdits, audioDuration, videoDurations,
                 clipSegments, trimDrag, editsMade>>
  /\ UNCHANGED nonTimelineVars

NextTimeline ==
  \/ \E d \in AudioInputs : SetAudioDuration(d)
  \/ \E ok \in SUBSET Paths : ProbeSettled(ok)
  \/ \E t \in 0..MaxPlayhead : Seek(t)

SpecTimeline == InitTimeline /\ [][NextTimeline]_vars

(***************************************************************************)
(* Playback over a loaded project whose clips carry trims and fill methods.*)
(***************************************************************************)
FillMethods == {"loop", "pingpong", "stretch"}

MapperClipLists == {<<"a">>, <<"b", "a">>}

MapperEdits ==
  {[NoEdit EXCEPT !.trimStart = Num(1), !.trimEnd = Num(3), !.duration = Num(4),
                  !.fillMethod = m] : m \in FillMethods}
  \cup {[NoEdit EXCEPT !.fillMethod = "stretch"],
        [NoEdit EXCEPT !.trimStart = Num(1), !.trimEnd = Num(2), !.duration = Num(3)]}

InitMapper ==
  /\ InitPreview
  /\ InitRender
  /\ InitHost
  /\ InitProject("song")
  /\ videoPaths \in MapperClipLists
  /\ videoIds = [i \in 1..Len(videoPaths) |-> i]
  /\ \E f \in [1..Len(videoPaths) -> MapperEdits] : clipEdits = StoredEdits(f)
  /\ audioDuration = 0
  /\ videoDurations = [p \in Paths |-> 0]
  /\ playhead = 0
  /\ clipSegments = ClipSegments(videoPaths, videoIds, clipEdits, 0, videoDurations)
  /\ active = ResolveActiveClip(clipSegments, Num(0))
  /\ trimDrag = NoDrag
  /\ editsMade = 0

SpecMapper == InitMapper /\ [][NextTimeline]_vars

(***************************************************************************)
(* Clip edits: updateClipEdit, the trim/duration entrypoints, the trim     *)
(* drag of the storyboard and the clip properties dialog.                  *)
(***************************************************************************)
\* clipSegments.find((item) => item.id === id): an index, 0 when not found
FindSegment(segs, id) ==
  IF \E k \in DOMAIN segs : segs[k].id = id
  THEN CHOOSE k \in DOMAIN segs :
         segs[k].id = id /\ \A j \in DOMAIN segs : segs[j].id = id => k <= j
  ELSE 0

\* { ...existing, ...patch }
MergeEdit(existing, patch) ==
  [f \in DOMAIN existing |-> IF f \in DOMAIN patch THEN patch[f] ELSE existing[f]]

UpdateClipEdit(edits, id, patch) ==
  [k \in DOMAIN edits \cup {id} |->
     IF k = id THEN MergeEdit(EditOf(edits, id), patch) ELSE edits[k]]

\* the cap of a duration to the audio that remains after the segment's start
MaxDuration(segs, audio, id) ==
  LET k == FindSegment(segs, id)
  IN  IF audio > 0 /\ k # 0 THEN MathMax(Num(0), Minus(Num(audio), segs[k].start))
      ELSE PosInf

\* applyTrimEdit: the patch it hands to updateClipEdit
TrimEditPatch(segs, audio, id, trimStart, duration) ==
  LET k == FindSegment(segs, id)
      maxEnd == IF k # 0 THEN segs[k].trimEnd ELSE PosInf
      nextStart == MathMax(Num(0), trimStart)
      clampedStart == MathMax(Num(0), MathMin(Minus(maxEnd, Num(MinLen)), nextStart))
      nextDuration == MathMax(Num(MinLen), duration)
      clampedDuration == MathMin(nextDuration, MaxDuration(segs, audio, id))
  IN  [trimStart |-> clampedStart, duration |-> clampedDuration]

\* DurationEditPatch without the cap to the remaining audio
DurationEditPatch_NoCap(segs, audio, id, duration) ==
  [duration |-> MathMax(Num(MinLen), duration)]

\* applyDurationEdit: the patch it hands to updateClipEdit
DurationEditPatch(segs, audio, id, duration) ==
  LET nextDuration == MathMax(Num(MinLen), duration)
      clampedDuration == MathMin(nextDuration, MaxDuration(segs, audio, id))
  IN  [duration |-> clampedDuration]

\* ClipTrimDragPatch whose timeline-mode end handle also moves the trim end
ClipTrimDragPatch_EndMovesTrim(segs, audio, id, update) ==
  LET seg == segs[FindSegment(segs, id)]
  IN  IF update.mode = "source"
      THEN IF update.kind = "start"
           THEN LET maxStart == MathMax(Num(0), Minus(seg.trimEnd, Num(MinLen)))
                IN  [trimStart |-> MathMax(Num(0), MathMin(maxStart, update.trimStart))]
           ELSE LET maxEnd == IF GreaterThan(seg.sourceDuration, Num(0))
                              THEN seg.sourceDuration ELSE PosInf
                IN  [trimEnd |-> MathMax(Plus(seg.trimStart, Num(MinLen)),
                                         MathMin(maxEnd, update.trimEnd))]
      ELSE IF update.kind = "start"
           THEN TrimEditPatch(segs, audio, id, update.trimStart, update.duration)
           ELSE [duration |-> DurationEditPatch(segs, audio, id, update.duration).duration,
                 trimEnd |-> Plus(seg.trimStart,
                                  DurationEditPatch(segs, audio, id, update.duration).duration)]

\* applyClipTrimDrag for a clip that is on the timeline
ClipTrimDragPatch(segs, audio, id, update) ==
  LET seg == segs[FindSegment(segs, id)]
  IN  IF update.mode = "source"
      THEN IF update.kind = "start"
           THEN LET maxStart == MathMax(Num(0), Minus(seg.trimEnd, Num(MinLen)))
                IN  [trimStart |-> MathMax(Num(0), MathMin(maxStart, update.trimStart))]
           ELSE LET maxEnd == IF GreaterThan(seg.sourceDuration, Num(0))
                              THEN seg.sourceDuration ELSE PosInf
                IN  [trimEnd |-> MathMax(Plus(seg.trimStart, Num(MinLen)),
                                         MathMin(maxEnd, update.trimEnd))]
      ELSE IF update.kind = "start"
           THEN TrimEditPatch(segs, audio, id, update.trimStart, update.duration)
           ELSE DurationEditPatch(segs, audio, id, update.duration)

\* Storyboard onMove: the update it hands to onTrimDrag for a mouse move of delta
DragUpdate(drag, totalDuration, delta, mode) ==
  LET maxStart == Minus(drag.trimEnd, Num(MinLen))
      nextStart == MathMax(Num(0), MathMin(maxStart, Plus(drag.trimStart, Num(delta))))
      maxDuration == MathMax(Num(MinLen), Minus(totalDuration, drag.timelineStart))
      shorter == MathMin(MathMax(Num(MinLen), Minus(drag.duration, Num(delta))), maxDuration)
      longer == MathMin(MathMax(Num(MinLen), Plus(drag.duration, Num(delta))), maxDuration)
      maxEnd == IF GreaterThan(drag.sourceDuration, Num(0)) THEN drag.sourceDuration
                ELSE PosInf
      nextTrimEnd == MathMax(Plus(drag.trimStart, Num(MinLen)),
                             MathMin(maxEnd, Plus(drag.trimEnd, Num(delta))))
  IN  IF drag.kind = "start"
      THEN [kind |-> "start", mode |-> mode, trimStart |-> nextStart,
            trimEnd |-> drag.trimEnd,
            duration |-> IF mode = "source" THEN drag.duration ELSE shorter]
      ELSE [kind |-> "end", mode |-> mode, trimStart |-> drag.trimStart,
            trimEnd |-> IF mode = "source" THEN nextTrimEnd ELSE drag.trimEnd,
            duration |-> IF mode = "source" THEN drag.duration ELSE longer]

\* applyClipEditor: the patch built from the draft of the clip properties dialog
ClipEditorPatch(segs, audio, id, draft) ==
  LET seg == segs[FindSegment(segs, id)]
      timelineStartRaw ==
        MathMax(Num(0), Coalesce(draft.timelineStart, Coalesce(seg.start, Num(0))))
      maxTimelineEnd == IF audio > 0 THEN Num(audio) ELSE PosInf
      timelineStart == MathMin(timelineStartRaw, maxTimelineEnd)
      timelineEndRaw == IF IsFinite(draft.timelineEnd) THEN draft.timelineEnd
                        ELSE Plus(timelineStart, seg.duration)
      timelineEnd == MathMin(MathMax(timelineStart, timelineEndRaw), maxTimelineEnd)
      duration == MathMax(Num(MinLen), Minus(timelineEnd, timelineStart))
      trimStart == MathMax(Num(0), Coalesce(draft.trimStart, Coalesce(seg.trimStart, Num(0))))
      sourceDuration == seg.sourceDuration
      known == GreaterThan(sourceDuration, Num(0))
      trimEndRaw == IF IsFinite(draft.trimEnd) THEN draft.trimEnd
                    ELSE IF known THEN sourceDuration ELSE Plus(trimStart, duration)
      trimEndCapped == IF known THEN MathMin(trimEndRaw, sourceDuration) ELSE trimEndRaw
      trimEnd == MathMax(Plus(trimStart, Num(MinLen)), trimEndCapped)
  IN  [timelineStart |-> timelineStart, duration |-> duration, trimStart |-> trimStart,
       trimEnd |-> trimEnd,
       fillMethod |-> IF draft.fillMethod = "undef" THEN "loop" ELSE draft.fillMethod,
       hue |-> ToNumber(Coalesce(draft.hue, Num(0)))]

\* setSession with the new edits; the memo and the preview frame follow
CommitEdits(edits) ==
  /\ editsMade < MaxEdits
  /\ editsMade' = editsMade + 1
  /\ clipEdits' = edits
  /\ clipSegments' = ClipSegments(videoPaths, videoIds, edits, audioDuration, videoDurations)
  /\ active' = ResolveActiveClip(clipSegments', Num(playhead))
  /\ projectDirty' = TRUE
  /\ UNCHANGED <<videoPaths, videoIds, audioDuration, videoDurations, playhead>>
  /\ UNCHANGED <<previewVars, renderVars, projectVars, hostRestVars>>

(***************************************************************************)
(* An editing session: a loaded project, then trim drags on the storyboard *)
(* and saves of the clip properties dialog.                                *)
(***************************************************************************)
EditClipLists == {<<"a">>, <<"a", "b">>}

EditLoadedEdits ==
  {NoEdit,
   [NoEdit EXCEPT !.trimStart = Num(1), !.trimEnd = Num(3), !.fillMethod = "pingpong"]}

EditAudioInputs == {0, 3}

DragDeltas == {0 - 2, 0, 1}
DragKinds == {"start", "end"}
DragModes == {"timeline", "source"}

\* drafts as the inputs of the dialog leave them: finite, not negative, each
\* end at least MinLen after its start
ClipEditorDrafts ==
  {[timelineStart |-> Num(s), timelineEnd |-> Num(s + n), trimStart |-> Num(a),
    trimEnd |-> Num(a + MinLen), fillMethod |-> m, hue |-> Num(1)] :
      s \in {0, 1}, n \in {1, 3}, a \in {0, 4}, m \in {"stretch"}}

InitEdit ==
  /\ InitPreview
  /\ InitRender
  /\ InitHost
  /\ InitProject("song")
  /\ videoPaths \in EditClipLists
  /\ videoIds = [i \in 1..Len(videoPaths) |-> i]
  /\ \E f \in [1..Len(videoPaths) -> EditLoadedEdits] : clipEdits = StoredEdits(f)
  /\ audioDuration \in EditAudioInputs
  /\ \E ok \in {{}, Paths} :
        videoDurations = [p \in Paths |-> IF p \in ok THEN FileDuration(p) ELSE 0]
  /\ playhead = 0
  /\ clipSegments = ClipSegments(videoPaths, videoIds, clipEdits, audioDuration,
                                 videoDurations)
  /\ active = ResolveActiveClip(clipSegments, Num(0))
  /\ trimDrag = NoDrag
  /\ editsMade = 0

\* Storyboard startTrimDrag: mouse down on a trim handle of segment i; the drag
\* record carries activeTrimMode, which startTrimDrag and onMove set with it
StartTrimDrag(i, kind, mode) ==
  /\ trimDrag = NoDrag
  /\ i \in DOMAIN clipSegments
  /\ trimDrag' = [id |-> clipSegments[i].id, kind |-> kind, mode |-> mode,
                  timelineStart |-> clipSegments[i].start,
                  trimStart |-> clipSegments[i].trimStart,
                  trimEnd |-> clipSegments[i].trimEnd,
                  sourceDuration |-> clipSegments[i].sourceDuration,
                  duration |-> clipSegments[i].duration]
  /\ UNCHANGED <<videoPaths, videoIds, clipEdits, audioDuration, videoDurations,
                 playhead, clipSegments, active, editsMade>>
  /\ UNCHANGED nonTimelineVars

\* Storyboard onMove and, through onTrimDrag, applyClipTrimDrag
DragMove(delta, mode) ==
  LET totalDuration == TimelineDuration(audioDuration, clipSegments)
      update == DragUpdate(trimDrag, totalDuration, delta, mode)
      patch == ClipTrimDragPatch(clipSegments, audioDuration, trimDrag.id, update)
  IN  /\ trimDrag # NoDrag
      /\ GreaterThan(totalDuration, Num(0))
      /\ FindSegment(clipSegments, trimDrag.id) # 0
      /\ CommitEdits(UpdateClipEdit(clipEdits, trimDrag.id, patch))
      /\ trimDrag' = [trimDrag EXCEPT !.mode = mode]

\* Storyboard onUp
EndTrimDrag ==
  /\ trimDrag # NoDrag
  /\ trimDrag' = NoDrag
  /\ UNCHANGED <<videoPaths, videoIds, clipEdits, audioDuration, videoDurations,
                 playhead, clipSegments, active, editsMade>>
  /\ UNCHANGED nonTimelineVars

\* Save in the clip properties dialog of segment i (a click: no drag is in progress)
ApplyClipEditor(i, draft) ==
  /\ trimDrag = NoDrag
  /\ i \in DOMAIN clipSegments
  /\ CommitEdits(UpdateClipEdit(clipEdits, clipSegments[i].id,
                                ClipEditorPatch(clipSegments, audioDuration,
                                                clipSegments[i].id, draft)))
  /\ UNCHANGED trimDrag

NextEdit ==
  \/ \E i \in 1..MaxClips, kind \in DragKinds, mode \in DragModes :
       StartTrimDrag(i, kind, mode)
  \/ \E delta \in DragDeltas, mode \in DragModes : DragMove(delta, mode)
  \/ EndTrimDrag
  \/ \E i \in 1..MaxClips, draft \in ClipEditorDrafts : ApplyClipEditor(i, draft)

SpecEdit == InitEdit /\ [][NextEdit]_vars

(***************************************************************************)
(* The clip edit entrypoints called with any number.                       *)
(***************************************************************************)
NumberInputs == {NaN, Num(0 - 1), Num(0), Num(2), Num(9)}

DragUpdates ==
  {[kind |-> k, mode |-> m, trimStart |-> x, trimEnd |-> y, duration |-> Num(2)] :
      k \in DragKinds, m \in {"source"}, x \in NumberInputs, y \in {NaN, Num(3)}}

ApplyTrimEdit(i, trimStart, duration) ==
  /\ i \in DOMAIN clipSegments
  /\ CommitEdits(UpdateClipEdit(clipEdits, clipSegments[i].id,
                                TrimEditPatch(clipSegments, audioDuration,
                                              clipSegments[i].id, trimStart, duration)))
  /\ UNCHANGED trimDrag

ApplyDurationEdit(i, duration) ==
  /\ i \in DOMAIN clipSegments
  /\ CommitEdits(UpdateClipEdit(clipEdits, clipSegments[i].id,
                                DurationEditPatch(clipSegments, audioDuration,
                                                  clipSegments[i].id, duration)))
  /\ UNCHANGED trimDrag

ApplyClipTrimDrag(i, update) ==
  /\ i \in DOMAIN clipSegments
  /\ CommitEdits(UpdateClipEdit(clipEdits, clipSegments[i].id,
                                ClipTrimDragPatch(clipSegments, audioDuration,
                                                  clipSegments[i].id, update)))
  /\ UNCHANGED trimDrag

NextEntry ==
  \/ \E ok \in SUBSET Paths : ProbeSettled(ok)
  \/ \E i \in 1..MaxClips, x \in NumberInputs, y \in NumberInputs : ApplyTrimEdit(i, x, y)
  \/ \E i \in 1..MaxClips, y \in NumberInputs : ApplyDurationEdit(i, y)
  \/ \E i \in 1..MaxClips, update \in DragUpdates : ApplyClipTrimDrag(i, update)

SpecEntry == InitEdit /\ [][NextEntry]_vars

(***************************************************************************)
(* Project files: buildProjectFromSession, project:save, project:open and  *)
(* handleLoadProject.  A file is what JSON.parse makes of its text: a clip *)
(* entry without a usable path has path "", an absent number is Undefined. *)
(***************************************************************************)
\* JSON.stringify of a number: NaN and Infinity are written as null
JsonNumber(x) == IF IsFinite(x) \/ x = Undefined THEN x ELSE Null

NoPathEntry ==
  [path |-> "", start |-> Undefined, trimStart |-> Undefined, trimEnd |-> Undefined,
   duration |-> Undefined, fillMethod |-> "undef", hue |-> Undefined]

\* ClipDescriptor that leaves the trim end out of the descriptor
ClipDescriptor_NoTrimEnd(seg) ==
  [path |-> seg.path,
   start |-> IF IsFinite(seg.start) THEN seg.start ELSE Undefined,
   trimStart |-> JsonNumber(seg.trimStart),
   trimEnd |-> Undefined,
   duration |-> JsonNumber(seg.duration),
   fillMethod |-> seg.fillMethod,
   hue |-> IF IsFinite(seg.hue) THEN seg.hue ELSE Undefined]

\* buildProjectFromSession: the clip descriptor of a resolved segment
ClipDescriptor(seg) ==
  [path |-> seg.path,
   start |-> IF IsFinite(seg.start) THEN seg.start ELSE Undefined,
   trimStart |-> JsonNumber(seg.trimStart),
   trimEnd |-> JsonNumber(seg.trimEnd),
   duration |-> JsonNumber(seg.duration),
   fillMethod |-> seg.fillMethod,
   hue |-> IF IsFinite(seg.hue) THEN seg.hue ELSE Undefined]

\* buildProjectFromSession, as project:save writes it and JSON.parse reads it back
BuildProjectFromSession ==
  [kind |-> "file", parses |-> TRUE, version |-> "1.0", hasClips |-> TRUE,
   clips |-> [i \in DOMAIN clipSegments |-> ClipDescriptor(clipSegments[i])],
   layersIsArray |-> TRUE, layers |-> layers,
   audioPath |-> audioPath, playhead |-> Num(playhead)]

\* isProjectSchema behind JSON.parse in project:open
IsProjectSchema(file) == file.parses /\ file.version = "1.0" /\ file.hasClips

\* handleLoadProject: the edit built from a clip descriptor
EditOfDescriptor(c) ==
  [trimStart |-> IF IsFinite(c.trimStart) THEN c.trimStart ELSE Undefined,
   trimEnd |-> IF IsFinite(c.trimEnd) THEN c.trimEnd ELSE Undefined,
   duration |-> IF IsFinite(c.duration) THEN c.duration ELSE Undefined,
   timelineStart |-> IF IsFinite(c.start) THEN c.start ELSE Undefined,
   fillMethod |-> c.fillMethod,
   hue |-> IF IsFinite(c.hue) THEN c.hue ELSE Undefined]

HasPath(c) == c.path # ""

\* makeId: ids that no earlier load has handed out
FreshId(n, i) == n * (MaxFileClips + 1) + i

\* what the files of the model hold
ValidLayers == {"L1", "L2"}

FullEntry ==
  [path |-> "b", start |-> Num(5), trimStart |-> Num(1), trimEnd |-> Num(2),
   duration |-> Num(3), fillMethod |-> "stretch", hue |-> Num(1)]

ProjectFiles ==
  {[kind |-> "file", parses |-> ok, version |-> v, hasClips |-> hc, clips |-> cs,
    layersIsArray |-> TRUE, layers |-> ls, audioPath |-> "song", playhead |-> Num(1)] :
      ok \in BOOLEAN, v \in {"1.0", "0.9"}, hc \in BOOLEAN,
      cs \in {<<[NoPathEntry EXCEPT !.path = "a"], FullEntry>>,
              <<[NoPathEntry EXCEPT !.path = "a"], NoPathEntry>>},
      ls \in {<<"L1">>, <<"junk">>}}

\* project:open and handleLoadProject
LoadProject(file) ==
  /\ file # NoFile
  /\ loads < MaxLoads
  /\ loads' = loads + 1
  /\ opened' = file
  /\ UNCHANGED <<disk, audioDuration, videoDurations, trimDrag, editsMade>>
  /\ UNCHANGED particleVars
  /\ UNCHANGED <<previewVars, renderVars, outputVars, waveVars, clipOpVars, library,
                 missingPaths, closeRestVars>>
  /\ IF IsProjectSchema(file)
     THEN LET clipList == SelectSeq(file.clips, HasPath)
              nextIds == [i \in DOMAIN clipList |-> FreshId(loads', i)]
          IN  /\ videoPaths' = [i \in DOMAIN clipList |-> clipList[i].path]
              /\ videoIds' = nextIds
              /\ clipEdits' =
                   [id \in {nextIds[i] : i \in {j \in DOMAIN clipList :
                                                  EditOfDescriptor(clipList[j]) # NoEdit}}
                      |-> EditOfDescriptor(clipList[id - FreshId(loads', 0)])]
              /\ audioPath' = file.audioPath
              /\ playhead' = IF IsFinite(file.playhead) THEN file.playhead.v ELSE 0
              /\ layers' = IF file.layersIsArray THEN file.layers ELSE <<>>
              /\ clipSegments' = ClipSegments(videoPaths', videoIds', clipEdits',
                                              audioDuration, videoDurations)
              /\ active' = ResolveActiveClip(clipSegments', Num(playhead'))
              /\ StartCheck(audioPath', videoPaths', library)
              /\ projectDirty' = FALSE
     ELSE UNCHANGED <<videoPaths, videoIds, clipEdits, audioPath, playhead, layers,
                      clipSegments, active, checks, projectDirty>>

\* handleSaveProject, with no other event between its start and its end
SaveProject ==
  /\ disk' = BuildProjectFromSession
  /\ projectDirty' = FALSE
  /\ UNCHANGED <<audioPath, layers, loads, opened>>
  /\ UNCHANGED timelineVars
  /\ UNCHANGED <<previewVars, renderVars, hostRestVars>>

\* the layer panel adds a layer
AddLayer(l) ==
  /\ windowOpen
  /\ Len(layers) < MaxLayers
  /\ layers' = Append(layers, l)
  /\ projectDirty' = TRUE
  /\ UNCHANGED <<audioPath, loads, opened, disk>>
  /\ UNCHANGED timelineVars
  /\ UNCHANGED <<previewVars, renderVars, hostRestVars>>

NextProject ==
  \/ \E d \in EditAudioInputs : SetAudioDuration(d)
  \/ \E ok \in {{}, Paths} : ProbeSettled(ok)
  \/ \E l \in ValidLayers : AddLayer(l)
  \/ SaveProject
  \/ \E file \in ProjectFiles \cup {disk} : LoadProject(file)

SpecProject == InitEdit /\ [][NextProject]_vars

(***************************************************************************)
(* Preview frame renderer (renderPreviewFrame): the busy/queued latch.     *)
(* A call runs without interruption up to its await of a video seek, and   *)
(* from the end of that await to its end; drawing may throw.               *)
(***************************************************************************)
FrameOutcomes == {"seek", "draw", "throw"}
SettleOutcomes == {"draw", "throw"}

\* FinishFrame that leaves the queued flag set
FinishFrame_KeepQueued(raf) ==
  /\ previewBusy' = FALSE
  /\ previewQueued' = previewQueued
  /\ rafPending' = IF previewQueued THEN raf + 1 ELSE raf

\* the end of a frame render: clear the latch, re-issue one pending request
FinishFrame(raf) ==
  /\ previewBusy' = FALSE
  /\ IF previewQueued
     THEN previewQueued' = FALSE /\ rafPending' = raf + 1
     ELSE previewQueued' = previewQueued /\ rafPending' = raf

\* an exception leaves the function between the latch and its release
ThrowInFrame(raf) ==
  /\ previewBusy' = TRUE
  /\ previewQueued' = previewQueued
  /\ rafPending' = raf

\* RenderPreviewFrame that only raises the latch once the seek has settled
RenderPreviewFrame_LateLatch(outcome, raf) ==
  IF previewBusy
  THEN /\ previewQueued' = TRUE
       /\ deferred' = deferred + 1
       /\ rafPending' = raf
       /\ UNCHANGED <<previewBusy, seeking, framesStarted>>
  ELSE IF ~canvasMounted
  THEN /\ rafPending' = raf
       /\ UNCHANGED <<previewBusy, previewQueued, seeking, framesStarted, deferred>>
  ELSE /\ framesStarted' = framesStarted + 1
       /\ deferred' = 0
       /\ IF outcome = "seek"
          THEN /\ seeking' = seeking + 1
               /\ rafPending' = raf
               /\ UNCHANGED <<previewBusy, previewQueued>>
          ELSE /\ seeking' = seeking
               /\ IF outcome = "draw" THEN FinishFrame(raf) ELSE ThrowInFrame(raf)

\* one call of renderPreviewFrame, up to its await or to its end
RenderPreviewFrame(outcome, raf) ==
  IF previewBusy
  THEN /\ previewQueued' = TRUE
       /\ deferred' = deferred + 1
       /\ rafPending' = raf
       /\ UNCHANGED <<previewBusy, seeking, framesStarted>>
  ELSE IF ~canvasMounted
  THEN /\ rafPending' = raf
       /\ UNCHANGED <<previewBusy, previewQueued, seeking, framesStarted, deferred>>
  ELSE /\ framesStarted' = framesStarted + 1
       /\ deferred' = 0
       /\ IF outcome = "seek"
          THEN /\ previewBusy' = TRUE
               /\ seeking' = seeking + 1
               /\ rafPending' = raf
               /\ UNCHANGED previewQueued
          ELSE /\ seeking' = seeking
               /\ IF outcome = "draw" THEN FinishFrame(raf) ELSE ThrowInFrame(raf)

\* an effect or an event handler asks for a frame
RequestFrame(outcome) ==
  /\ requests < MaxRequests
  /\ requests' = requests + 1
  /\ RenderPreviewFrame(outcome, rafPending)
  /\ UNCHANGED canvasMounted
  /\ UNCHANGED nonPreviewVars

\* a pending animation-frame callback runs and calls renderPreviewFrame
RafFire(outcome) ==
  /\ rafPending > 0
  /\ RenderPreviewFrame(outcome, rafPending - 1)
  /\ UNCHANGED <<canvasMounted, requests>>
  /\ UNCHANGED nonPreviewVars

\* the seek awaited by a frame render settles (seeked, or the 500 ms timeout)
SeekSettled(outcome) ==
  /\ seeking > 0
  /\ seeking' = seeking - 1
  /\ IF outcome = "draw" THEN FinishFrame(rafPending) ELSE ThrowInFrame(rafPending)
  /\ UNCHANGED <<canvasMounted, requests, framesStarted, deferred>>
  /\ UNCHANGED nonPreviewVars

\* the preview section is collapsed or expanded: the canvas is unmounted, or it
\* is mounted and the expand effect schedules a call of renderPreviewFrame
ToggleSection ==
  /\ IF canvasMounted
     THEN /\ canvasMounted' = FALSE
          /\ UNCHANGED <<rafPending, requests>>
     ELSE /\ requests < MaxRequests
          /\ canvasMounted' = TRUE
          /\ requests' = requests + 1
          /\ rafPending' = rafPending + 1
  /\ UNCHANGED <<previewBusy, previewQueued, seeking, framesStarted, deferred>>
  /\ UNCHANGED nonPreviewVars

NextPreview ==
  \/ \E o \in FrameOutcomes : RequestFrame(o)
  \/ \E o \in FrameOutcomes : RafFire(o)
  \/ \E o \in SettleOutcomes : SeekSettled(o)
  \/ ToggleSection

InitPreviewSession == InitSession /\ InitPreview /\ InitRender /\ InitHost

SpecPreview == InitPreviewSession /\ [][NextPreview]_vars

\* the animation-frame callback and the settling of a seek always come about
FairSpecPreview ==
  /\ SpecPreview
  /\ WF_vars(\E o \in FrameOutcomes : RafFire(o))
  /\ WF_vars(\E o \in SettleOutcomes : SeekSettled(o))

(***************************************************************************)
(* Render subprocess lifecycle (render:start, render:cancel, the child's   *)
(* 'error' and 'close' handlers) and the window's isRendering flag.        *)
(* IPC messages are delivered in the step that sends them.                 *)
(***************************************************************************)
ExitCodes == {0, 1}

Children == DOMAIN procs
LiveChildren == {c \in Children : procs[c].status = "running"}

NewChild(ok) ==
  [status |-> IF ok THEN "running" ELSE "spawnFailed",
   killed |-> FALSE, sigint |-> FALSE, timer |-> "none", forced |-> FALSE,
   exitCode |-> 0, events |-> <<>>]

\* the busy check of render:start
StartAccepted == currentRenderChild = 0

\* handleStartRender calls render:start, which runs up to its first await
StartRender ==
  /\ Len(procs) + starting < MaxRenders
  /\ IF StartAccepted
     THEN /\ starting' = starting + 1
          /\ isRendering' = TRUE
     ELSE /\ starting' = starting
          /\ isRendering' = FALSE
  /\ UNCHANGED <<currentRenderChild, procs>>
  /\ UNCHANGED nonRenderVars

\* render:start throws while preparing (project file or renderer not found)
StartFailed ==
  /\ starting > 0
  /\ starting' = starting - 1
  /\ isRendering' = FALSE
  /\ UNCHANGED <<currentRenderChild, procs>>
  /\ UNCHANGED nonRenderVars

\* render:start spawns the subprocess and takes it as the render handle
Spawn(ok) ==
  /\ starting > 0
  /\ starting' = starting - 1
  /\ procs' = Append(procs, NewChild(ok))
  /\ currentRenderChild' = Len(procs) + 1
  /\ UNCHANGED isRendering
  /\ UNCHANGED nonRenderVars

\* child.on('error'): the subprocess could not be spawned
ChildError(c) ==
  /\ c \in Children
  /\ procs[c].status = "spawnFailed"
  /\ currentRenderChild' = 0
  /\ procs' = [procs EXCEPT ![c].status = "errored",
                            ![c].events = Append(@, [kind |-> "rejected", code |-> 0])]
  /\ isRendering' = FALSE
  /\ UNCHANGED starting
  /\ UNCHANGED nonRenderVars

\* CloseHandler that leaves the render handle in place
CloseHandler_KeepHandle(c, code) ==
  /\ currentRenderChild' = currentRenderChild
  /\ procs' = [procs EXCEPT ![c].status = "closed",
                            ![c].exitCode = code,
                            ![c].events = Append(@, IF code = 0
                                                    THEN [kind |-> "done", code |-> 0]
                                                    ELSE [kind |-> "error", code |-> code])]
  /\ isRendering' = FALSE

\* child.on('close', code)
CloseHandler(c, code) ==
  /\ currentRenderChild' = 0
  /\ procs' = [procs EXCEPT ![c].status = "closed",
                            ![c].exitCode = code,
                            ![c].events = Append(@, IF code = 0
                                                    THEN [kind |-> "done", code |-> 0]
                                                    ELSE [kind |-> "error", code |-> code])]
  /\ isRendering' = FALSE

\* the subprocess exits, by itself or on a signal, and its streams close
ChildExit(c, code) ==
  /\ c \in Children
  /\ procs[c].status = "running"
  /\ CloseHandler(c, code)
  /\ UNCHANGED starting
  /\ UNCHANGED nonRenderVars

\* 'close' follows 'error' for a subprocess that could not be spawned
ChildCloseAfterError(c) ==
  /\ c \in Children
  /\ procs[c].status = "errored"
  /\ CloseHandler(c, 0 - 2)
  /\ UNCHANGED starting
  /\ UNCHANGED nonRenderVars

\* render:cancel: SIGINT, a 750 ms timer, the handle dropped, render:cancelled sent.
\* child.kill reports whether the signal was sent, and child.killed records it.
CancelRender ==
  /\ IF currentRenderChild = 0
     THEN UNCHANGED <<currentRenderChild, procs, isRendering>>
     ELSE LET c == currentRenderChild
              sent == procs[c].status = "running"
          IN  /\ procs' = [procs EXCEPT ![c].killed = @ \/ sent,
                                        ![c].sigint = @ \/ sent,
                                        ![c].timer = "armed",
                                        ![c].events =
                                           Append(@, [kind |-> "cancelled", code |-> 0])]
              /\ currentRenderChild' = 0
              /\ isRendering' = FALSE
  /\ UNCHANGED starting
  /\ UNCHANGED nonRenderVars

\* the 750 ms timer of a cancel fires: force-kill unless child.killed
TimerFire(c) ==
  /\ c \in Children
  /\ procs[c].timer = "armed"
  /\ procs' = [procs EXCEPT ![c].timer = "fired",
                            ![c].forced = @ \/ ~procs[c].killed]
  /\ UNCHANGED <<currentRenderChild, starting, isRendering>>
  /\ UNCHANGED nonRenderVars

NextRender ==
  \/ StartRender
  \/ StartFailed
  \/ \E ok \in BOOLEAN : Spawn(ok)
  \/ \E c \in 1..MaxRenders : ChildError(c)
  \/ \E c \in 1..MaxRenders, code \in ExitCodes : ChildExit(c, code)
  \/ \E c \in 1..MaxRenders : ChildCloseAfterError(c)
  \/ CancelRender
  \/ \E c \in 1..MaxRenders : TimerFire(c)

InitRenderSession == InitSession /\ InitPreview /\ InitRender /\ InitHost

SpecRender == InitRenderSession /\ [][NextRender]_vars

(***************************************************************************)
(* Reading the render subprocess's output (flushLines and the 'data'       *)
(* handlers of render:start, onRenderLog and onRenderProgress of the       *)
(* window).  Bytes and characters are tokens: "out=" stands for the text   *)
(* out_time_ms= and "tot=" for total_duration_ms=, "lead" and "cont" are   *)
(* the two bytes of one two-byte UTF-8 character, "e2" is that character   *)
(* and "fffd" the replacement character U+FFFD.                            *)
(***************************************************************************)
MaxOutput == 3
MaxChunk == 4

Bytes == {"out=", "tot=", "1", "2", "x", "sp", "cr", "nl", "lead", "cont"}

Digits == {"1", "2"}

DigitValue(c) == IF c = "1" THEN 1 ELSE 2

\* String(d) of one Buffer: UTF-8 decoding, U+FFFD for each malformed byte
RECURSIVE DecodeChunk(_)
DecodeChunk(bytes) ==
  IF bytes = <<>> THEN <<>>
  ELSE IF Head(bytes) = "lead"
  THEN IF Len(bytes) >= 2 /\ bytes[2] = "cont"
       THEN <<"e2">> \o DecodeChunk(SubSeq(bytes, 3, Len(bytes)))
       ELSE <<"fffd">> \o DecodeChunk(Tail(bytes))
  ELSE IF Head(bytes) = "cont" THEN <<"fffd">> \o DecodeChunk(Tail(bytes))
  ELSE <<Head(bytes)>> \o DecodeChunk(Tail(bytes))

\* the optional \r of the separator /\r?\n/
StripCr(line) ==
  IF Len(line) > 0 /\ line[Len(line)] = "cr" THEN SubSeq(line, 1, Len(line) - 1)
  ELSE line

\* buf.split(/\r?\n/)
RECURSIVE SplitLines(_, _)
SplitLines(buf, cur) ==
  IF buf = <<>> THEN <<cur>>
  ELSE IF Head(buf) = "nl" THEN <<StripCr(cur)>> \o SplitLines(Tail(buf), <<>>)
  ELSE SplitLines(Tail(buf), Append(cur, Head(buf)))

\* line.trimEnd()
RECURSIVE TrimEnd(_)
TrimEnd(line) ==
  IF Len(line) > 0 /\ line[Len(line)] \in {"sp", "cr"}
  THEN TrimEnd(SubSeq(line, 1, Len(line) - 1))
  ELSE line

\* Number(m[1]) for the digits (\d+) that follow the prefix of a matching line
RECURSIVE NumberAt(_, _, _)
NumberAt(msg, i, acc) ==
  IF i <= Len(msg) /\ msg[i] \in Digits
  THEN NumberAt(msg, i + 1, acc * 10 + DigitValue(msg[i]))
  ELSE acc

\* msg.match(/^out_time_ms=(\d+)/), msg.match(/^total_duration_ms=(\d+)/)
Matches(msg, prefix) == Len(msg) >= 2 /\ msg[1] = prefix /\ msg[2] \in Digits

\* the messages one complete line makes flushLines send, and the new totalMs
LineMessages(line, total) ==
  LET msg == TrimEnd(line)
  IN  IF msg = <<>> THEN [sent |-> <<>>, total |-> total]
      ELSE IF Matches(msg, "out=")
      THEN [sent |-> <<[kind |-> "log", text |-> msg, outTimeMs |-> 0, totalMs |-> 0],
                       [kind |-> "progress", text |-> <<>>,
                        outTimeMs |-> NumberAt(msg, 2, 0), totalMs |-> total]>>,
            total |-> total]
      ELSE IF Matches(msg, "tot=")
      THEN [sent |-> <<[kind |-> "log", text |-> msg, outTimeMs |-> 0, totalMs |-> 0],
                       [kind |-> "total", text |-> <<>>,
                        outTimeMs |-> 0, totalMs |-> NumberAt(msg, 2, 0)]>>,
            total |-> NumberAt(msg, 2, 0)]
      ELSE [sent |-> <<[kind |-> "log", text |-> msg, outTimeMs |-> 0, totalMs |-> 0]>>,
            total |-> total]

\* the for loop of flushLines over the complete lines
RECURSIVE SendLines(_, _, _)
SendLines(lines, i, total) ==
  IF i >= Len(lines) THEN [sent |-> <<>>, total |-> total]
  ELSE LET one == LineMessages(lines[i], total)
           rest == SendLines(lines, i + 1, one.total)
       IN  [sent |-> one.sent \o rest.sent, total |-> rest.total]

\* flushLines: the messages sent, the new totalMs and the remainder kept
FlushLines(buf, total) ==
  LET lines == SplitLines(buf, <<>>)
      all == SendLines(lines, 1, total)
  IN  [sent |-> all.sent, total |-> all.total, remainder |-> lines[Len(lines)]]

RECURSIVE LogTexts(_)
LogTexts(sent) ==
  IF sent = <<>> THEN <<>>
  ELSE IF Head(sent).kind = "log" THEN <<Head(sent).text>> \o LogTexts(Tail(sent))
  ELSE LogTexts(Tail(sent))

RECURSIVE ProgressOf(_)
ProgressOf(sent) ==
  IF sent = <<>> THEN <<>>
  ELSE IF Head(sent).kind # "log" THEN <<Head(sent)>> \o ProgressOf(Tail(sent))
  ELSE ProgressOf(Tail(sent))

\* onRenderProgress: typeof outTimeMs === 'number', typeof totalMs === 'number'
RECURSIVE ElapsedAfter(_, _)
ElapsedAfter(elapsed, sent) ==
  IF sent = <<>> THEN elapsed
  ELSE ElapsedAfter(IF Head(sent).kind = "progress" THEN Head(sent).outTimeMs
                    ELSE elapsed, Tail(sent))

RECURSIVE TotalAfter(_, _)
TotalAfter(total, sent) ==
  IF sent = <<>> THEN total
  ELSE TotalAfter(IF Head(sent).kind # "log" THEN Head(sent).totalMs ELSE total,
                  Tail(sent))

\* the window's handlers for the messages of one flushLines call
Receive(sent) ==
  /\ logs' = logs \o LogTexts(sent)
  /\ progress' = progress \o ProgressOf(sent)
  /\ renderElapsedMs' = ElapsedAfter(renderElapsedMs, ProgressOf(sent))
  /\ renderTotalMs' = TotalAfter(renderTotalMs, ProgressOf(sent))

\* child.stdout.on('data'): the next n bytes arrive as one chunk
StdoutData(n) ==
  /\ n \in 1..Len(pendingOut)
  /\ LET flushed == FlushLines(stdoutBuf \o DecodeChunk(SubSeq(pendingOut, 1, n)), totalMs)
     IN  /\ stdoutBuf' = flushed.remainder
         /\ totalMs' = flushed.total
         /\ Receive(flushed.sent)
  /\ pendingOut' = SubSeq(pendingOut, n + 1, Len(pendingOut))
  /\ UNCHANGED <<output, outputErr, pendingErr, stderrBuf>>
  /\ UNCHANGED <<coreVars, nonOutputVars>>

\* child.stderr.on('data')
StderrData(n) ==
  /\ n \in 1..Len(pendingErr)
  /\ LET flushed == FlushLines(stderrBuf \o DecodeChunk(SubSeq(pendingErr, 1, n)), totalMs)
     IN  /\ stderrBuf' = flushed.remainder
         /\ totalMs' = flushed.total
         /\ Receive(flushed.sent)
  /\ pendingErr' = SubSeq(pendingErr, n + 1, Len(pendingErr))
  /\ UNCHANGED <<output, outputErr, pendingOut, stdoutBuf>>
  /\ UNCHANGED <<coreVars, nonOutputVars>>

RECURSIVE SeqsUpTo(_, _)
SeqsUpTo(S, n) ==
  IF n = 0 THEN {<<>>}
  ELSE LET shorter == SeqsUpTo(S, n - 1)
       IN  shorter \cup {Append(q, c) : q \in shorter, c \in S}

\* a progress report of a renderer: the total, then positions, then other text
SampleOutputs ==
  {<<"tot=", "2", "1", "nl", "out=", "1", "cr", "nl", "x", "sp", "nl", "out=", "2", "nl">>,
   <<"out=", "1", "2", "x", "nl", "x", "lead", "cont", "nl", "nl", "tot=", "1">>}

Outputs == SeqsUpTo(Bytes, MaxOutput) \cup SampleOutputs

ErrOutputs == {<<>>, <<"x", "nl">>}

InitReading ==
  /\ InitSession
  /\ InitPreview
  /\ InitRender
  /\ \E what \in Outputs, whatErr \in ErrOutputs : InitOutput(what, whatErr)
  /\ InitWave
  /\ idsMade = 0
  /\ InitMissing
  /\ InitClose
  /\ InitParticles(DefaultParticles)

NextReading ==
  \/ \E n \in 1..MaxChunk : StdoutData(n)
  \/ \E n \in 1..MaxChunk : StderrData(n)

SpecReading == InitReading /\ [][NextReading]_vars

(***************************************************************************)
(* The overview waveform: the effect on session.audioPath that shows       *)
(* pseudo peaks at once and decodes the file for the real ones.  A state   *)
(* update and the effect run it causes are one step: pending effects are   *)
(* flushed before the next render, so no render sees the state between.    *)
(* Peaks are named by their kind and by the file they were made for; the   *)
(* field by is the number of the decode that set them, 0 for the effect.   *)
(***************************************************************************)
MaxDecodes == 3

AudioFiles == {"song", "tune"}

\* makePseudoPeaks(audioPath)
PseudoPeaks(path) == [kind |-> "pseudo", path |-> path, by |-> 0]

DecodedPeaks(path, k) == [kind |-> "decoded", path |-> path, by |-> k]

\* the cleanup of the previous effect run: cancelled = true
CancelDecodes(ds) == [k \in DOMAIN ds |-> [ds[k] EXCEPT !.cancelled = TRUE]]

\* the effect body for the new audio path
WaveformEffect(path) ==
  IF path = ""
  THEN /\ overviewPeaks' = NoPeaks
       /\ decodes' = CancelDecodes(decodes)
  ELSE /\ overviewPeaks' = PseudoPeaks(path)
       /\ decodes' = Append(CancelDecodes(decodes),
                            [path |-> path, cancelled |-> FALSE, stage |-> "reading",
                             discarded |-> FALSE])

\* handleBrowseAudio, or an audio file dropped on the window
SetAudioPath(path) ==
  /\ Len(decodes) < MaxDecodes
  /\ audioPath' = path
  /\ playhead' = 0
  /\ audioDuration' = 0
  /\ clipSegments' = ClipSegments(videoPaths, videoIds, clipEdits, 0, videoDurations)
  /\ active' = ResolveActiveClip(clipSegments', Num(0))
  /\ IF path # audioPath
     THEN WaveformEffect(path) /\ StartCheck(path, videoPaths, library)
     ELSE UNCHANGED <<waveVars, checks>>
  /\ UNCHANGED <<videoPaths, videoIds, clipEdits, videoDurations, trimDrag, editsMade>>
  /\ UNCHANGED <<layers, loads, opened, disk>>
  /\ projectDirty' = TRUE
  /\ UNCHANGED particleVars
  /\ UNCHANGED <<previewVars, renderVars, outputVars, clipOpVars, library, missingPaths,
                 closeRestVars>>

\* handleNewProject: the default session, the peaks and the render log cleared
NewProject ==
  /\ videoPaths' = <<>>
  /\ videoIds' = <<>>
  /\ clipEdits' = <<>>
  /\ playhead' = 0
  /\ audioDuration' = 0
  /\ videoDurations' = [p \in Paths |-> 0]
  /\ clipSegments' = <<>>
  /\ active' = NoActive
  /\ audioPath' = ""
  /\ layers' = <<>>
  /\ overviewPeaks' = NoPeaks
  /\ decodes' = CancelDecodes(decodes)
  /\ logs' = <<>>
  /\ renderElapsedMs' = 0
  /\ renderTotalMs' = 0
  /\ UNCHANGED <<trimDrag, editsMade, loads, opened, disk>>
  /\ UNCHANGED <<output, outputErr, pendingOut, pendingErr, stdoutBuf, stderrBuf, totalMs,
                 progress>>
  /\ StartCheck("", <<>>, library)
  /\ projectDirty' = TRUE
  /\ UNCHANGED particleVars
  /\ UNCHANGED <<previewVars, renderVars, clipOpVars, library, missingPaths, closeRestVars>>

\* a decode that ends: discarded records that it found itself cancelled
Finished(k) ==
  [decodes EXCEPT ![k].stage = "done", ![k].discarded = decodes[k].cancelled]

\* the catch block of generatePeaks
DecodeFailed(k) ==
  /\ overviewPeaks' = IF decodes[k].cancelled THEN overviewPeaks
                      ELSE PseudoPeaks(decodes[k].path)
  /\ decodes' = Finished(k)

\* await readFileBuffer(audioPath) settles
ReadSettled(k, ok) ==
  /\ k \in DOMAIN decodes
  /\ decodes[k].stage = "reading"
  /\ IF ok THEN /\ decodes' = [decodes EXCEPT ![k].stage = "decoding"]
                /\ UNCHANGED overviewPeaks
     ELSE DecodeFailed(k)
  /\ UNCHANGED <<coreVars, nonWaveVars>>

\* await audioCtx.decodeAudioData settles: rejected, no channel data, or samples
DecodeSettled(k, outcome) ==
  /\ k \in DOMAIN decodes
  /\ decodes[k].stage = "decoding"
  /\ IF outcome = "rejected" THEN DecodeFailed(k)
     ELSE /\ decodes' = [decodes EXCEPT ![k].stage =
                           IF decodes[k].cancelled THEN "closingStale"
                           ELSE IF outcome = "noChannel" THEN "closingEmpty"
                           ELSE "closing"]
          /\ UNCHANGED overviewPeaks
  /\ UNCHANGED <<coreVars, nonWaveVars>>

\* CloseSettled that sets the decoded peaks whether cancelled or not
CloseSettled_Unguarded(k, ok) ==
  /\ k \in DOMAIN decodes
  /\ decodes[k].stage \in {"closing", "closingEmpty", "closingStale"}
  /\ IF ok /\ decodes[k].stage = "closingStale"
     THEN /\ decodes' = [decodes EXCEPT ![k].stage = "done"]
          /\ UNCHANGED overviewPeaks
     ELSE IF ok /\ decodes[k].stage = "closing"
     THEN /\ overviewPeaks' = DecodedPeaks(decodes[k].path, k)
          /\ decodes' = [decodes EXCEPT ![k].stage = "done"]
     ELSE DecodeFailed(k)
  /\ UNCHANGED <<coreVars, nonWaveVars>>

\* await audioCtx.close() settles, on each of the three paths that await it
CloseSettled(k, ok) ==
  /\ k \in DOMAIN decodes
  /\ decodes[k].stage \in {"closing", "closingEmpty", "closingStale"}
  /\ IF ok /\ decodes[k].stage = "closingStale"
     THEN /\ decodes' = Finished(k)
          /\ UNCHANGED overviewPeaks
     ELSE IF ok /\ decodes[k].stage = "closing"
     THEN /\ overviewPeaks' = IF decodes[k].cancelled THEN overviewPeaks
                              ELSE DecodedPeaks(decodes[k].path, k)
          /\ decodes' = Finished(k)
     ELSE DecodeFailed(k)
  /\ UNCHANGED <<coreVars, nonWaveVars>>

DecodeOutcomes == {"rejected", "noChannel", "samples"}

NextWaveform ==
  \/ \E path \in AudioFiles : SetAudioPath(path)
  \/ NewProject
  \/ \E k \in 1..MaxDecodes, ok \in BOOLEAN : ReadSettled(k, ok)
  \/ \E k \in 1..MaxDecodes, outcome \in DecodeOutcomes : DecodeSettled(k, outcome)
  \/ \E k \in 1..MaxDecodes, ok \in BOOLEAN : CloseSettled(k, ok)

SpecWaveform == InitPreviewSession /\ [][NextWaveform]_vars

(***************************************************************************)
(* The clip list: adding, duplicating, reordering and removing clips.      *)
(* makeId returns a random UUID: the n-th call gives an id not used before.*)
(***************************************************************************)
MaxIds == 2

NewId(n) == MaxClips + n

\* arr.splice(at, 0, item) on a copy; at is a 0-based position
InsertAt(arr, at, item) ==
  SubSeq(arr, 1, at) \o <<item>> \o SubSeq(arr, at + 1, Len(arr))

\* arr.splice(at, 1) on a copy
RemoveAt(arr, at) == SubSeq(arr, 1, at) \o SubSeq(arr, at + 2, Len(arr))

\* reorderList(arr, from, to)
ReorderList(arr, from, to) == InsertAt(RemoveAt(arr, from), to, arr[from + 1])

\* DeleteEdit that keeps the edit of the removed clip
DeleteEdit_Keep(edits, id) == edits

\* delete edits[id]
DeleteEdit(edits, id) == [k \in DOMAIN edits \ {id} |-> edits[k]]

\* setSession with a new clip list: the memo and the preview frame follow, and
\* the duration probe forgets its results when the list is empty
CommitClips(paths, ids, edits) ==
  /\ videoPaths' = paths
  /\ videoIds' = ids
  /\ clipEdits' = edits
  /\ videoDurations' = IF Len(paths) = 0 THEN [p \in Paths |-> 0] ELSE videoDurations
  /\ clipSegments' = ClipSegments(paths, ids, edits, audioDuration, videoDurations')
  /\ active' = ResolveActiveClip(clipSegments', Num(playhead))
  /\ UNCHANGED <<audioDuration, playhead, trimDrag, editsMade>>
  /\ StartCheck(audioPath, paths, library)
  /\ projectDirty' = TRUE
  /\ UNCHANGED particleVars
  /\ UNCHANGED <<previewVars, renderVars, projectVars, outputVars, waveVars, library,
                 missingPaths, closeRestVars>>

AddedPaths == {<<"b">>, <<"a", "a">>}

\* handleBrowseVideos / addVideoPaths: one fresh id per added path
AddVideos(paths) ==
  /\ audioPath # ""
  /\ idsMade + Len(paths) <= MaxIds
  /\ idsMade' = idsMade + Len(paths)
  /\ CommitClips(videoPaths \o paths,
                 videoIds \o [i \in 1..Len(paths) |-> NewId(idsMade + i)],
                 clipEdits)

\* handleReorderClips(from, to), 0-based
ReorderClips(from, to) ==
  /\ ~(from = to \/ from >= Len(videoPaths) \/ to >= Len(videoPaths))
  /\ CommitClips(ReorderList(videoPaths, from, to),
                 IF Len(videoIds) = Len(videoPaths) THEN ReorderList(videoIds, from, to)
                 ELSE videoIds,
                 clipEdits)
  /\ UNCHANGED idsMade

\* removeClipAt(idx), from the context menu of clip idx
RemoveClipAt(idx) ==
  /\ idx < Len(videoPaths)
  /\ CommitClips(RemoveAt(videoPaths, idx),
                 IF Len(videoIds) > 0 THEN RemoveAt(videoIds, idx) ELSE videoIds,
                 IF idx + 1 \in DOMAIN videoIds THEN DeleteEdit(clipEdits, videoIds[idx + 1])
                 ELSE clipEdits)
  /\ UNCHANGED idsMade

\* duplicateClipAt(idx): the copy gets a fresh id and a copy of the edit
DuplicateClipAt(idx) ==
  /\ idx < Len(videoPaths)
  /\ idsMade < MaxIds
  /\ idsMade' = idsMade + 1
  /\ LET newId == NewId(idsMade + 1)
         sourceId == IF idx + 1 \in DOMAIN videoIds THEN videoIds[idx + 1] ELSE 0
     IN  CommitClips(InsertAt(videoPaths, idx + 1, videoPaths[idx + 1]),
                     InsertAt(videoIds, idx + 1, newId),
                     IF sourceId \in DOMAIN clipEdits
                     THEN [k \in DOMAIN clipEdits \cup {newId} |->
                             IF k = newId THEN clipEdits[sourceId] ELSE clipEdits[k]]
                     ELSE clipEdits)

ClipPositions == 0..(MaxClips + MaxIds - 1)

NextClips ==
  \/ \E paths \in AddedPaths : AddVideos(paths)
  \/ \E from \in ClipPositions, to \in ClipPositions : ReorderClips(from, to)
  \/ \E idx \in ClipPositions : RemoveClipAt(idx)
  \/ \E idx \in ClipPositions : DuplicateClipAt(idx)

SpecClips == InitEdit /\ [][NextClips]_vars

(***************************************************************************)
(* Missing media: checkMissing asks fileExists for the audio, the clips    *)
(* and the library items and stores the paths that do not resolve.  The    *)
(* files on disk do not change; the library holds an item whose file is    *)
(* gone.  Calls in flight with the same targets give the same result, so   *)
(* they are kept as a set of target sets.                                  *)
(***************************************************************************)
\* fileExists(p)
FileExists(p) == p # "gone"

Libraries == {{}, {"gone"}}

\* setLibrary(items), from loadLibrary or after a library change
LibraryLoaded(items) ==
  /\ items # library
  /\ library' = items
  /\ StartCheck(audioPath, videoPaths, items)
  /\ UNCHANGED missingPaths
  /\ UNCHANGED <<coreVars, nonMissingVars>>

\* Promise.all of one checkMissing call resolves: setMissingPaths(new Set(missing))
CheckSettled(targets) ==
  /\ targets \in checks
  /\ missingPaths' = {p \in targets : ~FileExists(p)}
  /\ checks' = checks \ {targets}
  /\ UNCHANGED library
  /\ UNCHANGED <<coreVars, nonMissingVars>>

AllTargets == SUBSET (Paths \cup {"song", "gone"})

NextMissing ==
  \/ \E items \in Libraries : LibraryLoaded(items)
  \/ \E targets \in AllTargets : CheckSettled(targets)
  \/ \E paths \in AddedPaths : AddVideos(paths)

SpecMissing == InitEdit /\ [][NextMissing]_vars

(***************************************************************************)
(* Saving and closing.  handleSaveProject in its steps (the project is     *)
(* built, written, the main process is told the project is clean, the save *)
(* is reported), and the async 'close' handler of the window.  Electron    *)
(* emits 'close' synchronously and closes the window unless a listener has *)
(* called e.preventDefault() by the time emit returns; the handler's first *)
(* statement is an await, so it returns before any preventDefault.  The    *)
(* renderer goes with its window: its handlers need the window open.       *)
(***************************************************************************)
MaxSaves == 2

\* what buildProjectFromSession gives for the default session, the session of
\* the render in which the mount effect registered onProjectRequestSave
MountProject ==
  [kind |-> "file", parses |-> TRUE, version |-> "1.0", hasClips |-> TRUE,
   clips |-> <<>>, layersIsArray |-> TRUE, layers |-> <<>>,
   audioPath |-> "", playhead |-> Num(0)]

\* handleSaveProject up to await saveProject(target, project)
SaveStart ==
  /\ windowOpen
  /\ Len(saveJobs) < MaxSaves
  /\ saveJobs' = Append(saveJobs, [project |-> BuildProjectFromSession, stage |-> "writing"])
  /\ UNCHANGED <<projectDirty, windowOpen, closeStage, defaultPrevented, renderAnswer,
                 dirtyAnswer, savedListener>>
  /\ UNCHANGED <<coreVars, nonCloseVars>>

\* ipcMain.on('project:saved') of a close handler that awaits the save
SavedReceived(ok) ==
  IF savedListener
  THEN /\ savedListener' = FALSE
       /\ closeStage' = "done"
       /\ projectDirty' = IF ok THEN FALSE ELSE projectDirty
       /\ windowOpen' = IF ok THEN FALSE ELSE windowOpen
  ELSE UNCHANGED <<savedListener, closeStage, projectDirty, windowOpen>>

\* project:save settles: the file is written, or the write failed and the
\* catch block reports notifyProjectSaved(false)
SaveWritten(k, ok) ==
  /\ windowOpen
  /\ k \in DOMAIN saveJobs
  /\ saveJobs[k].stage = "writing"
  /\ IF ok
     THEN /\ disk' = saveJobs[k].project
          /\ saveJobs' = [saveJobs EXCEPT ![k].stage = "clearing"]
          /\ UNCHANGED <<savedListener, closeStage, projectDirty, windowOpen>>
     ELSE /\ saveJobs' = [saveJobs EXCEPT ![k].stage = "done"]
          /\ SavedReceived(FALSE)
          /\ UNCHANGED disk
  /\ UNCHANGED <<defaultPrevented, renderAnswer, dirtyAnswer>>
  /\ UNCHANGED <<audioPath, layers, loads, opened>>
  /\ UNCHANGED <<timelineVars, previewVars, renderVars, nonCloseVars>>

\* await updateProjectDirty(false): project:updateDirty is handled
SaveCleared(k) ==
  /\ windowOpen
  /\ k \in DOMAIN saveJobs
  /\ saveJobs[k].stage = "clearing"
  /\ projectDirty' = FALSE
  /\ saveJobs' = [saveJobs EXCEPT ![k].stage = "notifying"]
  /\ UNCHANGED <<windowOpen, closeStage, defaultPrevented, renderAnswer, dirtyAnswer,
                 savedListener>>
  /\ UNCHANGED <<coreVars, nonCloseVars>>

\* notifyProjectSaved(true)
SaveNotified(k) ==
  /\ windowOpen
  /\ k \in DOMAIN saveJobs
  /\ saveJobs[k].stage = "notifying"
  /\ saveJobs' = [saveJobs EXCEPT ![k].stage = "done"]
  /\ SavedReceived(TRUE)
  /\ UNCHANGED <<defaultPrevented, renderAnswer, dirtyAnswer>>
  /\ UNCHANGED <<coreVars, nonCloseVars>>

\* the user asks to close the window: 'close' is emitted, the handler runs up
\* to await safeSaveWindowState(window), emit returns and Electron goes on
\* with the close unless it was prevented
CloseRequested ==
  /\ windowOpen
  /\ closeStage \in {"idle", "done"}
  /\ closeStage' = "savingState"
  /\ defaultPrevented' = FALSE
  /\ windowOpen' = defaultPrevented'
  /\ renderAnswer' = "none"
  /\ dirtyAnswer' = "none"
  /\ UNCHANGED <<projectDirty, savedListener, saveJobs>>
  /\ UNCHANGED <<coreVars, nonCloseVars>>

\* if (!projectDirty) return; e.preventDefault(); the Unsaved Changes prompt
DirtyCheck ==
  IF projectDirty
  THEN closeStage' = "dirtyPrompt" /\ defaultPrevented' = TRUE
  ELSE closeStage' = "done" /\ UNCHANGED defaultPrevented

\* safeSaveWindowState settles: the render check, then the dirty check
StateSaved ==
  /\ closeStage = "savingState"
  /\ IF currentRenderChild # 0
     THEN closeStage' = "renderPrompt" /\ defaultPrevented' = TRUE
     ELSE DirtyCheck
  /\ UNCHANGED <<projectDirty, windowOpen, renderAnswer, dirtyAnswer, savedListener, saveJobs>>
  /\ UNCHANGED <<coreVars, nonCloseVars>>

RenderAnswers == {"stop", "cancel", "failed"}

\* the Render In Progress prompt is answered, or showMessageBox fails on the
\* destroyed window and the handler ends there
RenderPrompt(answer) ==
  /\ closeStage = "renderPrompt"
  /\ renderAnswer' = answer
  /\ IF answer = "stop"
     THEN /\ DirtyCheck
          /\ IF currentRenderChild # 0
             THEN LET c == currentRenderChild
                      sent == procs[c].status = "running"
                  IN  procs' = [procs EXCEPT ![c].killed = @ \/ sent,
                                              ![c].sigint = @ \/ sent,
                                              ![c].timer = "armed"]
             ELSE UNCHANGED procs
     ELSE /\ closeStage' = "done"
          /\ UNCHANGED <<defaultPrevented, procs>>
  /\ UNCHANGED <<projectDirty, windowOpen, dirtyAnswer, savedListener, saveJobs>>
  /\ UNCHANGED <<currentRenderChild, starting, isRendering>>
  /\ UNCHANGED <<timelineVars, previewVars, projectVars, nonCloseVars>>

DirtyAnswers == {"save", "discard", "cancel", "failed"}

\* the Unsaved Changes prompt is answered (or fails).  Save registers the
\* 'project:saved' listener and sends project:requestSave, which throws into
\* the catch block when the window is destroyed; in an open window the bound
\* handleSaveProject starts
DirtyPrompt(answer) ==
  /\ closeStage = "dirtyPrompt"
  /\ dirtyAnswer' = answer
  /\ IF answer = "discard"
     THEN /\ projectDirty' = FALSE
          /\ windowOpen' = FALSE
          /\ closeStage' = "done"
          /\ UNCHANGED <<savedListener, saveJobs>>
     ELSE IF answer = "save"
     THEN /\ savedListener' = TRUE
          /\ IF windowOpen
             THEN /\ closeStage' = "awaitSaved"
                  /\ saveJobs' = Append(saveJobs, [project |-> MountProject,
                                                   stage |-> "writing"])
             ELSE /\ closeStage' = "done"
                  /\ UNCHANGED saveJobs
          /\ UNCHANGED <<projectDirty, windowOpen>>
     ELSE /\ closeStage' = "done"
          /\ UNCHANGED <<projectDirty, windowOpen, savedListener, saveJobs>>
  /\ UNCHANGED <<defaultPrevented, renderAnswer>>
  /\ UNCHANGED <<coreVars, nonCloseVars>>

NextClose ==
  \/ \E l \in ValidLayers : AddLayer(l)
  \/ SaveStart
  \/ \E k \in 1..MaxSaves, ok \in BOOLEAN : SaveWritten(k, ok)
  \/ \E k \in 1..MaxSaves : SaveCleared(k)
  \/ \E k \in 1..MaxSaves : SaveNotified(k)
  \/ StartRender
  \/ \E ok \in BOOLEAN : Spawn(ok)
  \/ \E c \in 1..MaxRenders, code \in ExitCodes : ChildExit(c, code)
  \/ CloseRequested
  \/ StateSaved
  \/ \E answer \in RenderAnswers : RenderPrompt(answer)
  \/ \E answer \in DirtyAnswers : DirtyPrompt(answer)

SpecClose == InitRenderSession /\ [][NextClose]_vars

(***************************************************************************)
(* Particle simulator (the particles branch of renderPreviewFrame).        *)
(* Positions are kept in half pixels, times in milliseconds, speeds in     *)
(* pixels per second.  Math.random is an input: the position draws are 0   *)
(* or 1/2 of the box, the same for the particles pushed in one frame, and  *)
(* the draws of angleOffset and speedScale are the middle ones (0 and 1).  *)
(* The cosine and sine of a multiple of 90 degrees are taken as -1, 0, 1.  *)
(***************************************************************************)
MaxTicks == 3

\* half pixels per pixel
PxUnits == 2

\* Math.max(10, ...) of drawW, drawH and of the particle count
MinBox == 10
MinCount == 10

\* the cap of dt, 0.05 s, in milliseconds
MaxDt == 50

IntMax(a, b) == IF a >= b THEN a ELSE b
IntMin(a, b) == IF a <= b THEN a ELSE b

\* const drawW = Math.max(10, baseW * stageScale), likewise drawH
DrawW(layer) == IntMax(MinBox, layer.w)
DrawH(layer) == IntMax(MinBox, layer.h)

\* Math.cos and Math.sin of layer.direction in degrees
Cos(deg) == CASE deg = 0 -> 1 [] deg = 90 -> 0 [] deg = 180 -> 0 - 1 [] OTHER -> 0
Sin(deg) == CASE deg = 0 -> 0 [] deg = 90 -> 1 [] deg = 180 -> 0 [] OTHER -> 0 - 1

\* the state found in particleStateRef, a fresh one when there is none
StateOrFresh(layer) ==
  IF particleState = NoParticleState
  THEN [kind |-> "state", particles |-> <<>>, width |-> DrawW(layer), height |-> DrawH(layer)]
  ELSE particleState

\* the rescaling of the positions when the box has changed
Rescaled(state, drawW, drawH) ==
  IF state.width # drawW \/ state.height # drawH
  THEN [state EXCEPT
          !.particles = [i \in 1..Len(state.particles) |->
                           [x |-> (state.particles[i].x * drawW) \div state.width,
                            y |-> (state.particles[i].y * drawH) \div state.height]],
          !.width = drawW,
          !.height = drawH]
  ELSE state

\* the particle list cut or filled up to count; r is the draw of Math.random
\* for the positions, in halves
Resized(state, count, r) ==
  IF Len(state.particles) > count
  THEN [state EXCEPT !.particles = SubSeq(state.particles, 1, count)]
  ELSE [state EXCEPT
          !.particles = [i \in 1..count |->
                           IF i <= Len(state.particles) THEN state.particles[i]
                           ELSE [x |-> r.x * state.width, y |-> r.y * state.height]]]

\* if (v < 0) v += size; if (v > size) v -= size;
Wrap(v, size) ==
  LET up == IF v < 0 THEN v + size ELSE v
  IN  IF up > size THEN up - size ELSE up

\* one particle advanced by dt milliseconds at the given speed
Advanced(p, layer, speed, dt) ==
  IF dt > 0
  THEN [x |-> Wrap(p.x + (PxUnits * Cos(layer.direction) * speed * dt) \div 1000,
                   PxUnits * DrawW(layer)),
        y |-> Wrap(p.y + (PxUnits * Sin(layer.direction) * speed * dt) \div 1000,
                   PxUnits * DrawH(layer))]
  ELSE p

\* the particles branch for one frame: elapsed is nowMs - state.lastTime for a
\* state that exists, amplitude the audio amplitude (0 or 1), r the draw
ParticleFrame(elapsed, amplitude, r) ==
  /\ ticks < MaxTicks
  /\ LET layer == particleLayer
         count == IntMax(MinCount, layer.particleCount)
         baseSpeed == IntMax(1, layer.speed)
         speedScale == IF layer.audioResponsive THEN 1 + amplitude ELSE 1
         isActive == ~audioPaused
         state == Resized(Rescaled(StateOrFresh(layer), DrawW(layer), DrawH(layer)),
                          count, r)
         since == IF particleState = NoParticleState THEN 0 ELSE elapsed
         dt == IF isActive THEN IntMin(MaxDt, since) ELSE 0
     IN  particleState' =
           [state EXCEPT !.particles =
              [i \in 1..Len(state.particles) |->
                 Advanced(state.particles[i], layer, baseSpeed * speedScale, dt)]]
  /\ ticks' = ticks + 1
  /\ UNCHANGED <<particleLayer, audioPaused>>
  /\ UNCHANGED <<coreVars, nonParticleVars>>

\* the layer dialog changes the layer's width and height
ResizeLayer(w, h) ==
  /\ <<w, h>> # <<particleLayer.w, particleLayer.h>>
  /\ particleLayer' = [particleLayer EXCEPT !.w = w, !.h = h]
  /\ UNCHANGED <<audioPaused, particleState, ticks>>
  /\ UNCHANGED <<coreVars, nonParticleVars>>

\* the layer dialog changes the particle count
SetParticleCount(n) ==
  /\ n # particleLayer.particleCount
  /\ particleLayer' = [particleLayer EXCEPT !.particleCount = n]
  /\ UNCHANGED <<audioPaused, particleState, ticks>>
  /\ UNCHANGED <<coreVars, nonParticleVars>>

\* the play button: waveRef.current.toggle()
TogglePlay ==
  /\ audioPaused' = ~audioPaused
  /\ UNCHANGED <<particleLayer, particleState, ticks>>
  /\ UNCHANGED <<coreVars, nonParticleVars>>

\* layer boxes (width and height times the stage scale), one below the floor of 10
BoxSizes == {<<5, 20>>, <<10, 10>>, <<20, 10>>, <<20, 20>>}
ParticleCounts == {4, 10, 11}
Speeds == {100, 300}
Directions == {0, 90, 180}
Elapsed == {10, 100}
Amplitudes == {0, 1}
Draws == {[x |-> 0, y |-> 0], [x |-> 1, y |-> 1]}

ParticleLayers ==
  {[DefaultParticles EXCEPT !.speed = s, !.direction = d, !.audioResponsive = a] :
     s \in Speeds, d \in Directions, a \in BOOLEAN}

NextParticles ==
  \/ \E e \in Elapsed, a \in Amplitudes, r \in Draws : ParticleFrame(e, a, r)
  \/ \E b \in BoxSizes : ResizeLayer(b[1], b[2])
  \/ \E n \in ParticleCounts : SetParticleCount(n)
  \/ TogglePlay

InitParticleSession ==
  /\ InitSession /\ InitPreview /\ InitRender /\ InitHostRest
  /\ \E l \in ParticleLayers : InitParticles(l)

SpecParticles == InitParticleSession /\ [][NextParticles]_vars

(***************************************************************************)
(* Properties of the resolver and of the playback mapper.                  *)
(***************************************************************************)
SegIndices == DOMAIN clipSegments

\* the timeline-start override of clip i as the session stores it
OverrideOf(i) == EditOf(clipEdits, IdAt(videoIds, i)).timelineStart

PrevEnd(i) == IF i = 1 THEN Num(0) ELSE clipSegments[i - 1].end

\* the start the resolver computes for clip i before the audio clamp
ComputedStart(i) ==
  IF IsFinite(OverrideOf(i)) THEN MathMax(PrevEnd(i), OverrideOf(i)) ELSE PrevEnd(i)

\* the duration of clip i: its edit's, else its trimmed length, never below MinLen
ClipDuration(i) ==
  LET edit == EditOf(clipEdits, IdAt(videoIds, i))
      seg == clipSegments[i]
  IN  IF IsFinite(edit.duration) THEN MathMax(Num(MinLen), edit.duration)
      ELSE MathMax(Num(MinLen), Minus(seg.trimEnd, seg.trimStart))

RECURSIVE SumDurations(_)
SumDurations(i) == IF i = 0 THEN Num(0) ELSE Plus(SumDurations(i - 1), ClipDuration(i))

\* C1: with an audio duration L > 0, no resolved segment ends after L, and a
\* segment whose computed start is at or after L is emitted at L with duration 0.
C1_AudioClamp ==
  audioDuration > 0 =>
    \A i \in SegIndices :
      /\ IsFinite(clipSegments[i].end)
      /\ clipSegments[i].end.v <= audioDuration
      /\ GreaterEq(ComputedStart(i), Num(audioDuration)) =>
           /\ clipSegments[i].start = Num(audioDuration)
           /\ clipSegments[i].duration = Num(0)

\* a segment cut short by the audio end, followed by one collapsed at the audio end
C1_Witness ==
  /\ audioDuration > 0
  /\ \E i, j \in SegIndices :
       /\ i < j
       /\ clipSegments[i].end = Num(audioDuration)
       /\ GreaterThan(ClipDuration(i), clipSegments[i].duration)
       /\ GreaterThan(clipSegments[i].duration, Num(0))
       /\ clipSegments[j].start = Num(audioDuration)
       /\ clipSegments[j].duration = Num(0)

\* C2: segments come in clip order; the start of each is the greater of the
\* previous segment's end (0 for the first) and its own override, clamped to the
\* audio end when there is audio; starts and ends never decrease along the list.
C2_CascadingStart ==
  /\ Len(clipSegments) = Len(videoPaths)
  /\ \A i \in SegIndices :
       /\ clipSegments[i].index = i
       /\ clipSegments[i].path = videoPaths[i]
       /\ clipSegments[i].start =
            IF audioDuration > 0 THEN MathMin(Num(audioDuration), ComputedStart(i))
            ELSE ComputedStart(i)
       /\ i > 1 => /\ LessEq(clipSegments[i - 1].start, clipSegments[i].start)
                   /\ LessEq(clipSegments[i - 1].end, clipSegments[i].end)

\* an override before the previous end, and an override that leaves a gap
C2_Witness ==
  \E i, j \in SegIndices :
    /\ i > 1
    /\ IsFinite(OverrideOf(i))
    /\ GreaterThan(PrevEnd(i), OverrideOf(i))
    /\ clipSegments[i].start = PrevEnd(i)
    /\ IsFinite(OverrideOf(j))
    /\ GreaterThan(OverrideOf(j), PrevEnd(j))
    /\ clipSegments[j].start = OverrideOf(j)

NoOverrides == \A i \in DOMAIN videoPaths : ~IsFinite(OverrideOf(i))

\* C3: without overrides the first segment starts at 0 and every other one at
\* the end of its predecessor; without audio the end of the last segment, which
\* is the timeline duration, is the sum of the clips' durations.
C3_Monotonicity ==
  NoOverrides =>
    /\ \A i \in SegIndices : clipSegments[i].start = PrevEnd(i)
    /\ audioDuration = 0 =>
         /\ TimelineDuration(audioDuration, clipSegments) = SumDurations(Len(videoPaths))
         /\ Len(clipSegments) > 0 =>
              clipSegments[Len(clipSegments)].end = SumDurations(Len(videoPaths))

\* two clips of different durations, no override, no audio
C3_Witness ==
  /\ NoOverrides
  /\ audioDuration = 0
  /\ Len(clipSegments) >= 2
  /\ clipSegments[2].start = clipSegments[1].end
  /\ ClipDuration(1) # ClipDuration(2)
  /\ GreaterThan(clipSegments[2].end, clipSegments[1].end)

Containing(t) ==
  {i \in SegIndices : clipSegments[i].start.v <= t /\ t <= clipSegments[i].end.v}

\* C10: the mapper returns the first segment in clip order whose closed interval
\* [start, end] contains the playhead, and none exactly when no interval does.
C10_FirstContaining ==
  IF Containing(playhead) = {} THEN ~active.found
  ELSE /\ active.found
       /\ active.index \in Containing(playhead)
       /\ \A j \in Containing(playhead) : active.index <= j
       /\ active.path = clipSegments[active.index].path
       /\ active.duration = clipSegments[active.index].duration

\* the playhead on the boundary shared by two segments: the earlier one is returned
C10_Witness ==
  /\ active.found
  /\ active.index + 1 \in SegIndices
  /\ clipSegments[active.index].end = Num(playhead)
  /\ clipSegments[active.index + 1].start = Num(playhead)
  /\ GreaterThan(clipSegments[active.index].end, clipSegments[active.index].start)

(***************************************************************************)
(* Properties of the preview frame latch.                                  *)
(***************************************************************************)
\* C4: when a frame render that had two or more requests deferred behind it
\* completes, exactly one re-issue is scheduled and the pending flag is cleared;
\* the re-issued call, finding the latch open and the canvas mounted, starts
\* exactly one frame render.
C4_ExactlyOneReissue ==
  [][/\ (previewBusy /\ ~previewBusy' /\ deferred >= 2) =>
          /\ rafPending' = rafPending + 1
          /\ ~previewQueued'
          /\ framesStarted' = framesStarted
     /\ (rafPending' < rafPending /\ ~previewBusy /\ canvasMounted) =>
          /\ rafPending' = rafPending - 1
          /\ framesStarted' = framesStarted + 1]_vars

\* a frame render has completed with two requests deferred behind it
C4_Witness ==
  /\ ~previewBusy
  /\ ~previewQueued
  /\ deferred >= 2
  /\ rafPending = 1
  /\ seeking = 0

\* C5: at most one frame render is between the entry latch and its end, and
\* while one is there no other call gets past the latch.
C5_NoConcurrentFrames ==
  /\ [](seeking <= 1 /\ (seeking = 1 => previewBusy))
  /\ [][seeking > 0 => framesStarted' = framesStarted]_vars

\* a re-issued frame render awaits its seek while a further request is deferred
C5_Witness ==
  /\ seeking = 1
  /\ previewBusy
  /\ previewQueued
  /\ framesStarted >= 2
  /\ deferred >= 1

\* C6: a request deferred behind a frame render in flight is followed by the
\* start of a frame render (as long as there is a canvas to render to).
C6_TrailingNeverStarved == (deferred > 0) ~> (deferred = 0 \/ ~canvasMounted)

(***************************************************************************)
(* Properties of the render subprocess lifecycle.                          *)
(***************************************************************************)
LastEvent(child) == child.events[Len(child.events)]

\* C7: at most one render subprocess is live at any time, and as long as a
\* subprocess is still running (cancelled or not) render:start is rejected.
C7_AtMostOneLive ==
  /\ Cardinality(LiveChildren) <= 1
  /\ LiveChildren # {} => ~StartAccepted

\* C8: when the subprocess ends the caller gets a terminal event: done on exit
\* code 0, error with the code otherwise, a rejection on a spawn error; and the
\* render handle is reset, so that the next render:start is accepted.
C8_TerminalEventAndReset ==
  [][\A c \in Children :
       /\ (procs[c].status = "running" /\ procs'[c].status = "closed") =>
            /\ Len(procs'[c].events) = Len(procs[c].events) + 1
            /\ LastEvent(procs'[c]) =
                 IF procs'[c].exitCode = 0 THEN [kind |-> "done", code |-> 0]
                 ELSE [kind |-> "error", code |-> procs'[c].exitCode]
            /\ StartAccepted'
            /\ ~isRendering'
       /\ (procs[c].status = "spawnFailed" /\ procs'[c].status # "spawnFailed") =>
            /\ Len(procs'[c].events) = Len(procs[c].events) + 1
            /\ LastEvent(procs'[c]).kind = "rejected"
            /\ StartAccepted'
            /\ ~isRendering']_vars

\* one render has failed with a non-zero exit code and a later one has succeeded
C8_Witness ==
  /\ StartAccepted
  /\ ~isRendering
  /\ \E c, d \in Children :
       /\ c < d
       /\ procs[c].status = "closed" /\ procs[c].exitCode = 1
       /\ procs[c].events = <<[kind |-> "error", code |-> 1]>>
       /\ procs[d].status = "closed" /\ procs[d].exitCode = 0
       /\ procs[d].events = <<[kind |-> "done", code |-> 0]>>

\* C9: a cancel of a running render sends the interrupt and notifies the caller,
\* and the fallback timer force-kills the subprocess if it is still running.
C9_CancelForceKills ==
  [][\A c \in Children :
       /\ (procs[c].timer = "none" /\ procs'[c].timer = "armed"
           /\ procs[c].status = "running") =>
            /\ procs'[c].sigint
            /\ LastEvent(procs'[c]).kind = "cancelled"
       /\ (procs[c].timer = "armed" /\ procs'[c].timer = "fired"
           /\ procs[c].status = "running") =>
            procs'[c].forced]_vars

(***************************************************************************)
(* Playback mapper: fill methods.                                          *)
(***************************************************************************)
\* trimEnd - trimStart of a segment, never below MinLen
LoopLenOf(seg) ==
  IF seg.trimEnd.v - seg.trimStart.v >= MinLen THEN seg.trimEnd.v - seg.trimStart.v
  ELSE MinLen

\* the instants of the model inside segment seg
InstantsOf(seg) == {t \in 0..MaxPlayhead : seg.start.v <= t /\ t <= seg.end.v}

\* the clip of the 2 s .. 4 s trim played for 5 s from timeline 0, in ticks
ExampleSegment(method) ==
  ClipSegments(<<"a">>, <<1>>,
               <<[NoEdit EXCEPT !.trimStart = Num(40), !.trimEnd = Num(80),
                                !.duration = Num(100), !.fillMethod = method]>>,
               0, [p \in Paths |-> 200])[1]

\* C11: for the active segment, with rel = t - start and loopLen = max(0.05,
\* trimEnd - trimStart), the local source time is trimStart + (rel mod loopLen)
\* under loop, periodic in rel with period loopLen, and under pingpong it is
\* trimStart + phase when phase = rel mod (2 loopLen) <= loopLen and
\* trimStart + 2 loopLen - phase otherwise, moving by at most one tick per tick
\* (no jump at rel = loopLen, rel = 0 or rel = period); the 2 s .. 4 s clip
\* played for 5 s maps as in the examples.
C11_LoopAndPingpong ==
  /\ active.found =>
       LET seg == clipSegments[active.index]
           rel == playhead - seg.start.v
           loopLen == LoopLenOf(seg)
           phase == rel % (2 * loopLen)
       IN  /\ seg.fillMethod = "loop" =>
                /\ active.local = Num(seg.trimStart.v + (rel % loopLen))
                /\ active.localDen = 1
                /\ \A t \in InstantsOf(seg) :
                     t + loopLen \in InstantsOf(seg) =>
                       LocalTime(seg, Num(t + loopLen)) = LocalTime(seg, Num(t))
           /\ seg.fillMethod = "pingpong" =>
                /\ active.local = Num(seg.trimStart.v
                                      + IF phase <= loopLen THEN phase
                                        ELSE 2 * loopLen - phase)
                /\ active.localDen = 1
                /\ LocalTime(seg, seg.start).local = seg.trimStart
                /\ \A t \in InstantsOf(seg) :
                     /\ t + 1 \in InstantsOf(seg) =>
                          LET d == LocalTime(seg, Num(t + 1)).local.v
                                   - LocalTime(seg, Num(t)).local.v
                          IN  d \in {0 - 1, 1}
                     /\ (t - seg.start.v) % (2 * loopLen) = 0 =>
                          LocalTime(seg, Num(t)).local = seg.trimStart
                     /\ (t - seg.start.v) % (2 * loopLen) = loopLen =>
                          LocalTime(seg, Num(t)).local = Num(seg.trimStart.v + loopLen)
  /\ LocalTime(ExampleSegment("loop"), Num(0)).local = Num(40)
  /\ LocalTime(ExampleSegment("loop"), Num(30)).local = Num(70)
  /\ LocalTime(ExampleSegment("loop"), Num(50)).local = Num(50)
  /\ LocalTime(ExampleSegment("loop"), Num(98)).local = Num(58)
  /\ LocalTime(ExampleSegment("pingpong"), Num(40)).local = Num(80)
  /\ LocalTime(ExampleSegment("pingpong"), Num(60)).local = Num(60)
  /\ LocalTime(ExampleSegment("pingpong"), Num(80)).local = Num(40)
  /\ LocalTime(ExampleSegment("pingpong"), Num(100)).local = Num(60)

\* the playhead is on the way back of a pingpong clip, past the first turn
C11_Witness ==
  /\ active.found
  /\ clipSegments[active.index].fillMethod = "pingpong"
  /\ (playhead - clipSegments[active.index].start.v)
       % (2 * LoopLenOf(clipSegments[active.index])) > LoopLenOf(clipSegments[active.index])
  /\ active.local.v < clipSegments[active.index].trimEnd.v

\* the stretch segments that the audio clamp has not collapsed
StretchSegments ==
  {i \in SegIndices : /\ clipSegments[i].fillMethod = "stretch"
                      /\ GreaterThan(clipSegments[i].duration, Num(0))}

\* local source time of segment i at instant t equals x, as fractions
LocalIs(i, t, x) ==
  LocalTime(clipSegments[i], t).local.v = x * LocalTime(clipSegments[i], t).localDen

\* C12 (amended): for a stretch segment of duration > 0, local(rel = 0) is trimStart
\* and local(rel = duration) is trimStart + max(0.05, trimEnd - trimStart), which is
\* trimEnd whenever trimEnd - trimStart >= 0.05; this holds for durations shortened
\* by the audio clamp; a stretch segment collapsed to duration 0 maps to trimStart.
C12_StretchBoundary ==
  /\ \A i \in StretchSegments :
       /\ LocalIs(i, clipSegments[i].start, clipSegments[i].trimStart.v)
       /\ LocalIs(i, clipSegments[i].end,
                  clipSegments[i].trimStart.v + LoopLenOf(clipSegments[i]))
       /\ clipSegments[i].trimEnd.v - clipSegments[i].trimStart.v >= MinLen =>
            LocalIs(i, clipSegments[i].end, clipSegments[i].trimEnd.v)
  /\ \A i \in SegIndices :
       clipSegments[i].fillMethod = "stretch" /\ clipSegments[i].duration = Num(0) =>
         LocalIs(i, clipSegments[i].start, clipSegments[i].trimStart.v)
  /\ (active.found /\ active.index \in StretchSegments
        /\ Num(playhead) = clipSegments[active.index].end) =>
       active.local.v = (clipSegments[active.index].trimStart.v
                         + LoopLenOf(clipSegments[active.index])) * active.localDen

\* the playhead is at the end of a stretch clip that the audio clamp has shortened,
\* and the preview shows the trim end
C12_Witness ==
  /\ audioDuration > 0
  /\ active.found
  /\ active.index \in StretchSegments
  /\ Num(playhead) = clipSegments[active.index].end
  /\ GreaterThan(Num(ClipDuration(active.index).v), clipSegments[active.index].duration)
  /\ clipSegments[active.index].trimEnd.v > clipSegments[active.index].trimStart.v
  /\ active.local.v = clipSegments[active.index].trimEnd.v * active.localDen

\* C12 as stated: for every stretch segment, local(rel = 0) is trimStart and
\* local(rel = duration) is trimEnd exactly.
C12_StretchEndsAtTrimEnd ==
  \A i \in SegIndices :
    clipSegments[i].fillMethod = "stretch" =>
      /\ LocalIs(i, clipSegments[i].start, clipSegments[i].trimStart.v)
      /\ LocalIs(i, clipSegments[i].end, clipSegments[i].trimEnd.v)

(***************************************************************************)
(* Clip edits: trim and duration clamps.                                   *)
(***************************************************************************)
\* the stored edit of clip i before and after a step
EditBefore(i) == EditOf(clipEdits, IdAt(videoIds, i))
EditAfter(i) == EditOf(clipEdits', IdAt(videoIds', i))

\* the step is a clip edit that stored a new trim for clip i
TrimEdited(i) ==
  /\ editsMade' = editsMade + 1
  /\ \/ EditAfter(i).trimStart # EditBefore(i).trimStart
     \/ EditAfter(i).trimEnd # EditBefore(i).trimEnd

\* C13: after a drag edit (either handle, either mode) or a numeric edit that
\* stores a trim, the clip's source trim satisfies trimStart >= 0,
\* trimEnd - trimStart >= 0.05, and trimEnd <= sourceDuration when the source
\* duration is known.
C13_TrimWithinSource ==
  [][\A i \in DOMAIN videoPaths :
       TrimEdited(i) =>
         LET seg == clipSegments'[i]
         IN  /\ GreaterEq(seg.trimStart, Num(0))
             /\ GreaterEq(Minus(seg.trimEnd, seg.trimStart), Num(MinLen))
             /\ GreaterThan(seg.sourceDuration, Num(0)) =>
                  LessEq(seg.trimEnd, seg.sourceDuration)]_vars

\* the step is a move of a timeline-mode trim drag on clip i
TimelineDragOn(i) ==
  /\ editsMade' = editsMade + 1
  /\ trimDrag # NoDrag
  /\ trimDrag' # NoDrag
  /\ trimDrag'.mode = "timeline"
  /\ clipSegments[i].id = trimDrag.id

\* the audio that remains after the start of segment i, before the step
RemainingAudio(i) ==
  IF audioDuration - clipSegments[i].start.v > 0
  THEN audioDuration - clipSegments[i].start.v ELSE 0

EditFields == DOMAIN NoEdit

\* the edit fields that belong to a handle and a mode
FieldsOf(kind, mode) ==
  IF mode = "source" THEN (IF kind = "start" THEN {"trimStart"} ELSE {"trimEnd"})
  ELSE (IF kind = "start" THEN {"trimStart", "duration"} ELSE {"duration"})

\* the step is a move of the trim drag in progress
DragStep ==
  /\ editsMade' = editsMade + 1
  /\ trimDrag # NoDrag
  /\ trimDrag' # NoDrag

\* C15: a trim-drag event changes only the edit fields of its handle and mode
\* (timeline end: duration; source start: trimStart; source end: trimEnd;
\* timeline start: trimStart and duration), only in the edit of the dragged clip;
\* the timeline-start override, the fill method, the colour adjustments and the
\* edits of the other clips stay as they were.
C15_DragFrame ==
  [][DragStep =>
       /\ DOMAIN clipEdits' = DOMAIN clipEdits \cup {trimDrag.id}
       /\ \A id \in DOMAIN clipEdits' :
            id # trimDrag.id => clipEdits'[id] = clipEdits[id]
       /\ \A f \in EditFields \ FieldsOf(trimDrag.kind, trimDrag'.mode) :
            clipEdits'[trimDrag.id][f] = EditOf(clipEdits, trimDrag.id)[f]
       /\ UNCHANGED <<videoPaths, videoIds, audioDuration, videoDurations>>]_vars

\* a timeline-mode drag of the start handle has moved both the trim start and the
\* duration of the dragged clip, next to another clip that carries an edit
C15_Witness ==
  /\ editsMade > 0
  /\ trimDrag # NoDrag
  /\ trimDrag.kind = "start"
  /\ trimDrag.mode = "timeline"
  /\ trimDrag.id \in DOMAIN clipEdits
  /\ clipEdits[trimDrag.id].trimStart # trimDrag.trimStart
  /\ IsFinite(clipEdits[trimDrag.id].duration)
  /\ clipEdits[trimDrag.id].duration # trimDrag.duration
  /\ clipEdits[trimDrag.id].fillMethod = "pingpong"
  /\ \E id \in DOMAIN clipEdits : id # trimDrag.id

(***************************************************************************)
(* Clip edits: invalid numbers.                                            *)
(***************************************************************************)
NumericFields == {"trimStart", "trimEnd", "duration", "timelineStart", "hue"}

\* a stored edit value is absent, or a finite number that is not negative
ValidStored(x) == x = Undefined \/ (IsFinite(x) /\ x.v >= 0)

\* C16: whatever numbers the clip edit entrypoints are called with (NaN,
\* negative, out of range), every value stored in a clip edit is a finite number
\* that is not negative, and every start, end, duration and trim of a resolved
\* segment is a finite number that is not negative.
C16_NoInvalidNumber ==
  /\ \A id \in DOMAIN clipEdits :
       \A f \in NumericFields \ {"hue"} : ValidStored(clipEdits[id][f])
  /\ \A i \in SegIndices :
       \A f \in {"start", "end", "duration", "trimStart", "trimEnd"} :
         IsFinite(clipSegments[i][f]) /\ clipSegments[i][f].v >= 0

\* the edits and the segments after applyTrimEdit(id of clip i, x, y)
EditsAfterTrimEdit(edits, segs, i, x, y) ==
  UpdateClipEdit(edits, segs[i].id, TrimEditPatch(segs, audioDuration, segs[i].id, x, y))

SegmentsOf(edits) ==
  ClipSegments(videoPaths, videoIds, edits, audioDuration, videoDurations)

\* C17: each trim / duration clamp is idempotent: calling applyTrimEdit or
\* applyDurationEdit again on the same clip with the values it has just stored
\* (same audio and source durations) stores the same values again, for every
\* input including negative numbers and NaN; stated for the sessions in which no
\* invalid number has been stored before.
C17_ClampsIdempotent ==
  \A i \in SegIndices :
    C16_NoInvalidNumber =>
    /\ \A x \in NumberInputs, y \in NumberInputs :
         LET id == clipSegments[i].id
             once == EditsAfterTrimEdit(clipEdits, clipSegments, i, x, y)
             twice == EditsAfterTrimEdit(once, SegmentsOf(once), i,
                                         once[id].trimStart, once[id].duration)
         IN  twice = once
    /\ \A y \in NumberInputs :
         LET id == clipSegments[i].id
             once == UpdateClipEdit(clipEdits, id,
                       DurationEditPatch(clipSegments, audioDuration, id, y))
             twice == UpdateClipEdit(once, id,
                        DurationEditPatch(SegmentsOf(once), audioDuration, id,
                                          once[id].duration))
         IN  twice = once

(***************************************************************************)
(* Project files.                                                          *)
(***************************************************************************)
\* the step opens a project file
LoadStep == loads' = loads + 1

\* a file that is not a well-formed project description
Malformed(file) ==
  \/ ~file.parses
  \/ file.version # "1.0"
  \/ ~file.hasClips
  \/ \E i \in DOMAIN file.clips : ~HasPath(file.clips[i])
  \/ ~file.layersIsArray
  \/ \E i \in DOMAIN file.layers : file.layers[i] \notin ValidLayers

\* C18: opening a malformed project description (invalid JSON, wrong or missing
\* version tag, missing clip list, clip or layer entries of the wrong shape)
\* leaves the session (audio, clip list, clip ids, clip edits, layers, playhead)
\* exactly as it was.
C18_MalformedRejected ==
  [][(LoadStep /\ Malformed(opened')) =>
       UNCHANGED <<audioPath, videoPaths, videoIds, clipEdits, layers, playhead>>]_vars

\* the fields of a resolved segment that a project description carries
SameSegment(a, b) ==
  /\ a.index = b.index /\ a.path = b.path
  /\ a.start = b.start /\ a.end = b.end /\ a.duration = b.duration
  /\ a.trimStart = b.trimStart /\ a.trimEnd = b.trimEnd
  /\ a.fillMethod = b.fillMethod

\* the clips of the file opened in this step that have a path
KeptClips == SelectSeq(opened'.clips, HasPath)

OverrideBefore(prev, seg) ==
  /\ IsFinite(OverrideOf(seg.index))
  /\ GreaterThan(prev.end, MathMax(Num(0), OverrideOf(seg.index)))

\* C20: resolved segments never overlap: every segment starts at or after the
\* end of the segment before it; a start override that lies before the end of
\* the previous segment is ignored and the segment starts exactly at that end;
\* at an instant shared by two consecutive segments the playback mapper
\* answers with a segment that is not the later one.
C20_NoOverlap ==
  \A i \in 1..(Len(clipSegments) - 1) :
    LET prev == clipSegments[i]
        seg == clipSegments[i + 1]
    IN  /\ GreaterEq(seg.start, prev.end)
        /\ OverrideBefore(prev, seg) => seg.start = prev.end
        /\ (seg.start = prev.end /\ Num(playhead) = prev.end)
             => (active.found /\ active.index <= i)

\* an override before the end of the previous segment was stored, the segment
\* sits at that end, and the playhead is on the shared instant
C20_Witness ==
  \E i \in 1..(Len(clipSegments) - 1) :
    /\ OverrideBefore(clipSegments[i], clipSegments[i + 1])
    /\ GreaterThan(clipSegments[i].duration, Num(0))
    /\ clipSegments[i + 1].start = clipSegments[i].end
    /\ Num(playhead) = clipSegments[i].end
    /\ active.found /\ active.index = i

\* C20 as stated: an override earlier than the end of the previous segment
\* places the segment at that earlier start
C20_OverrideStartsEarlier ==
  \A i \in 1..(Len(clipSegments) - 1) :
    OverrideBefore(clipSegments[i], clipSegments[i + 1])
      => clipSegments[i + 1].start = MathMax(Num(0), OverrideOf(i + 1))

(***************************************************************************)
(* Properties of the reading of the render subprocess's output.            *)
(***************************************************************************)
\* what flushLines sends for the whole text of stdout taken as one piece
WholeOutput == FlushLines(DecodeChunk(output), 0)

\* C21: however the subprocess's stdout is split into chunks, once all of it
\* has been read the window has received each complete line exactly once and
\* in order: the log lines and the progress events are those of the whole
\* text (stderr silent, so that the order of the lines is that of stdout).
C21_ChunkingIrrelevant ==
  (pendingOut = <<>> /\ outputErr = <<>>)
    => /\ logs = LogTexts(WholeOutput.sent)
       /\ progress = ProgressOf(WholeOutput.sent)
       /\ renderElapsedMs = ElapsedAfter(0, ProgressOf(WholeOutput.sent))
       /\ renderTotalMs = TotalAfter(0, ProgressOf(WholeOutput.sent))

(***************************************************************************)
(* Properties of the overview waveform.                                    *)
(***************************************************************************)
\* the decode started by the latest run of the effect, 0 when there is none
CurrentDecode ==
  IF audioPath # "" /\ Len(decodes) > 0 /\ ~decodes[Len(decodes)].cancelled
  THEN Len(decodes) ELSE 0

\* C22: the peaks shown are those of the current audio reference: none
\* without audio, otherwise the pseudo peaks of the current path or the
\* outcome of the decode that the latest run of the effect started; a step of
\* a decode started for an earlier reference leaves the peaks as they are.
C22_StaleDecodeDiscarded ==
  /\ audioPath = "" => overviewPeaks = NoPeaks
  /\ audioPath # "" =>
       /\ overviewPeaks.path = audioPath
       /\ overviewPeaks.by \in {0, CurrentDecode}
  /\ \A k \in DOMAIN decodes : k # Len(decodes) => decodes[k].cancelled

\* the audio changed while a decode was past its read, the stale decode has
\* finished, and the peaks are those the later decode produced
C22_Witness ==
  /\ Len(decodes) >= 2
  /\ decodes[1].stage = "done" /\ decodes[1].discarded
  /\ decodes[1].path # audioPath
  /\ overviewPeaks = DecodedPeaks(audioPath, Len(decodes))

(***************************************************************************)
(* Properties of the clip list.                                            *)
(***************************************************************************)
IdsOf(ids) == {ids[i] : i \in DOMAIN ids}

\* the path of the clip with this id
PathOfId(paths, ids, id) == paths[CHOOSE i \in DOMAIN ids : ids[i] = id]

Aligned(paths, ids) ==
  /\ Len(ids) = Len(paths)
  /\ \A i \in DOMAIN ids, j \in DOMAIN ids : ids[i] = ids[j] => i = j

\* C23: every add, duplicate, reorder and remove leaves the id list aligned
\* with the path list and the ids pairwise distinct; a clip that is still in
\* the list keeps its path and exactly its edit wherever it now stands, an
\* edit is kept only for a clip in the list, a clip that left the list has
\* no edit any more, and a clip that joined has the edit of the clip it was
\* duplicated from or none.
C23_EditsFollowClips ==
  [][/\ Aligned(videoPaths', videoIds')
     /\ \A id \in IdsOf(videoIds) \cap IdsOf(videoIds') :
          /\ PathOfId(videoPaths', videoIds', id) = PathOfId(videoPaths, videoIds, id)
          /\ EditOf(clipEdits', id) = EditOf(clipEdits, id)
          /\ (id \in DOMAIN clipEdits') = (id \in DOMAIN clipEdits)
     /\ DOMAIN clipEdits' \subseteq IdsOf(videoIds')
     /\ \A id \in IdsOf(videoIds') \ IdsOf(videoIds) :
          \/ id \notin DOMAIN clipEdits'
          \/ \E src \in IdsOf(videoIds) :
               /\ clipEdits'[id] = EditOf(clipEdits, src)
               /\ PathOfId(videoPaths', videoIds', id) = PathOfId(videoPaths, videoIds, src)
    ]_vars

\* an edited clip stands behind an unedited one after a reorder, one clip was
\* added and another removed
C23_Witness ==
  /\ Len(videoIds) >= 2
  /\ videoIds[1] > videoIds[2]
  /\ videoIds[1] \in DOMAIN clipEdits
  /\ videoIds[2] \notin DOMAIN clipEdits
  /\ idsMade > 0
  /\ DOMAIN clipEdits # {}
  /\ \E id \in 1..MaxClips : id \notin IdsOf(videoIds)

(***************************************************************************)
(* Properties of the missing-media set.                                    *)
(***************************************************************************)
\* C24: once every existence check has settled, the missing set holds exactly
\* the current paths (audio, clips, library) that do not resolve.
C24_MissingIsCurrent ==
  checks = {} =>
    missingPaths = {p \in Targets(audioPath, videoPaths, library) : ~FileExists(p)}

(***************************************************************************)
(* Properties of saving and closing.                                       *)
(***************************************************************************)
\* C25: the window is destroyed only if there are no unsaved changes, or the
\* user chose Discard, or the user chose Save and the save was reported
\* successful; with a render running only after the user chose to stop it;
\* and a step in which the user answers Cancel leaves the window open.
C25_CloseOnlyWithConsent ==
  [][/\ (windowOpen /\ ~windowOpen') =>
          /\ \/ ~projectDirty
             \/ dirtyAnswer' = "discard"
             \/ (dirtyAnswer = "save" /\ savedListener /\ ~savedListener')
          /\ currentRenderChild # 0 => renderAnswer = "stop"
     /\ (renderAnswer # "cancel" /\ renderAnswer' = "cancel") => windowOpen'
     /\ (dirtyAnswer # "cancel" /\ dirtyAnswer' = "cancel") => windowOpen'
    ]_vars

\* what the project file holds: the last project written, or, before any
\* save, the project the session started from
LastWritten == IF disk = NoFile THEN MountProject ELSE disk

\* C28: while the window is open, the dirty flag of the main process is true
\* whenever the project in memory differs from what was last written to disk.
C28_DirtyWhenUnsaved ==
  (windowOpen /\ BuildProjectFromSession # LastWritten) => projectDirty

(***************************************************************************)
(* Properties of the render's terminal events and of the render handle.    *)
(***************************************************************************)
\* the done, error and cancelled events sent to the window for one subprocess
TerminalEvents(child) ==
  {i \in 1..Len(child.events) : child.events[i].kind \in {"done", "error", "cancelled"}}

\* C26: each started render produces exactly one terminal event (done, error
\* or cancelled): none before it ends or is cancelled, one afterwards, and the
\* exit of a cancelled subprocess adds no error or done event.
C26_OneTerminalEvent ==
  \A c \in Children :
    /\ Cardinality(TerminalEvents(procs[c])) <= 1
    /\ procs[c].status = "closed" => Cardinality(TerminalEvents(procs[c])) = 1

\* C27: the exit of a subprocess that is not the render handle leaves the
\* handle of the later, still running render in place.
C27_ExitKeepsLaterHandle ==
  [][\A c \in Children :
       (/\ procs[c].status = "running"
        /\ procs'[c].status = "closed"
        /\ currentRenderChild # 0
        /\ currentRenderChild # c
        /\ procs[currentRenderChild].status = "running") =>
         currentRenderChild' = currentRenderChild]_vars

(***************************************************************************)
(* Playback mapper: range of the local source time.                        *)
(***************************************************************************)
\* the local source time of segment seg at instant t lies in [trimStart, trimEnd]
InTrim(seg, t) ==
  LET m == LocalTime(seg, Num(t))
  IN  /\ m.local.t = "num"
      /\ seg.trimStart.v * m.localDen <= m.local.v
      /\ m.local.v <= seg.trimEnd.v * m.localDen

\* C29: for every resolved segment with trimEnd - trimStart >= 0.05 and every
\* instant inside it, the local source time of the playback mapper lies within
\* [trimStart, trimEnd], under loop, pingpong and stretch.
C29_LocalWithinTrim ==
  \A i \in SegIndices :
    LET seg == clipSegments[i]
    IN  (seg.trimStart.t = "num" /\ seg.trimEnd.t = "num"
         /\ seg.trimEnd.v - seg.trimStart.v >= MinLen) =>
          \A t \in InstantsOf(seg) : InTrim(seg, t)

\* instants of segment i at which its local source time is x, as fractions
InstantsAt(i, x) == {t \in InstantsOf(clipSegments[i]) : LocalIs(i, Num(t), x)}

\* the playhead is on a pingpong clip at the instant where the local source time
\* has reached the trim end, and the clip plays on (backwards) after it
C29_Witness ==
  /\ active.found
  /\ clipSegments[active.index].fillMethod = "pingpong"
  /\ clipSegments[active.index].trimEnd.v - clipSegments[active.index].trimStart.v >= MinLen
  /\ playhead \in InstantsAt(active.index, clipSegments[active.index].trimEnd.v)
  /\ playhead + 1 \in InstantsOf(clipSegments[active.index])
  /\ active.local = clipSegments[active.index].trimEnd
  /\ ~LocalIs(active.index, Num(playhead + 1), clipSegments[active.index].trimEnd.v)

(***************************************************************************)
(* Properties of the particle simulator.                                   *)
(***************************************************************************)
\* every particle lies within the box the state records, in half pixels
InBox(state) ==
  state # NoParticleState =>
    \A i \in 1..Len(state.particles) :
      /\ 0 <= state.particles[i].x /\ state.particles[i].x <= PxUnits * state.width
      /\ 0 <= state.particles[i].y /\ state.particles[i].y <= PxUnits * state.height

\* C30: after every frame of the particle simulation, also one that follows a
\* resize of the layer box or a change of the particle count, every particle
\* lies within the layer box; a resize rescales the positions proportionally;
\* and while playback is paused a frame leaves the positions as they are.
C30_ParticlesInBox ==
  [][ticks' # ticks =>
       /\ InBox(particleState')
       /\ particleState'.width = DrawW(particleLayer)
       /\ particleState'.height = DrawH(particleLayer)
       /\ (audioPaused /\ particleState # NoParticleState) =>
            \A i \in 1..IntMin(Len(particleState.particles), Len(particleState'.particles)) :
              /\ particleState'.particles[i].x * particleState.width
                   = particleState.particles[i].x * particleState'.width
              /\ particleState'.particles[i].y * particleState.height
                   = particleState.particles[i].y * particleState'.height]_vars

====
